---- MODULE Spec2Model ----
(***************************************************************************)
(* A model of the BRACE compiler pipeline (tomdoesdev/brace):              *)
(*   source text -> Lexer -> Parser -> Analyzer -> Transform.              *)
(* Source text is a sequence of one-character strings.  Position data      *)
(* carried by tokens (Line, Column, Position, Length) is used by the code  *)
(* only to decorate error messages and is not modelled.                    *)
(***************************************************************************)
EXTENDS Integers, Sequences, FiniteSets, TLC

(***************************************************************************)
(* Values.  A Go interface{} value is a record tagged by its dynamic type: *)
(* "nil", "str", "int", "float", "bool", "arr" ([]interface{}) or "map"    *)
(* (map[string]interface{}).  An integer holds its value; a float holds a  *)
(* decimal mantissa m and exponent e (m * 10^e, m not divisible by 10), or *)
(* one of the special values.                                              *)
(***************************************************************************)
Nil == [k |-> "nil", v |-> 0]
StrV(s) == [k |-> "str", v |-> s]
IntV(n) == [k |-> "int", v |-> n]
BoolV(b) == [k |-> "bool", v |-> b]
FloatV(m, e) == [k |-> "float", v |-> [s |-> "fin", m |-> m, e |-> e]]
FloatSpecial(s) == [k |-> "float", v |-> [s |-> s, m |-> 0, e |-> 0]]
ArrV(elems) == [k |-> "arr", v |-> elems]
MapV(f) == [k |-> "map", v |-> f]

\* make(map[string]interface{})
EmptyMap == [x \in {} |-> Nil]

\* m[key] = val on a Go map
MapSet(m, key, val) == [x \in DOMAIN m \cup {key} |-> IF x = key THEN val ELSE m[x]]

\* m[key] on a Go map: the zero value (nil) when the key is absent
MapGet(m, key) == IF key \in DOMAIN m THEN m[key] ELSE Nil

\* The orders in which the keys of a Go map can be read back: the map type
\* map[string]interface{} keeps no order, and `range` visits the keys in any
RangeOrders(m) ==
  { s \in [1..Cardinality(DOMAIN m) -> DOMAIN m] :
      \A i, j \in DOMAIN s : s[i] = s[j] => i = j }

(***************************************************************************)
(* AST nodes (package ast).  Every node is a record tagged by its Go type  *)
(* in field t.  A nil ast.Expression or ast.Statement interface value is   *)
(* NilNode; a nil pointer of type T stored in an interface (which Go       *)
(* treats as a non-nil interface value) is NilPtr(T).                      *)
(* Reference and EnvDirective carry the mutable slot ResolvedValue, whose  *)
(* zero value is the nil interface.                                        *)
(***************************************************************************)
NilNode == [t |-> "nil", of |-> "none"]
NilPtr(type) == [t |-> "nil", of |-> type]
\* x == nil on an interface value
IsNil(n) == n.t = "nil" /\ n.of = "none"
\* a nil pointer, bare or wrapped in an interface
IsNilPtr(n) == n.t = "nil"
Identifier(value) == [t |-> "Identifier", Value |-> value]
StringLiteral(value) == [t |-> "StringLiteral", Value |-> value]
NumberLiteral(value) == [t |-> "NumberLiteral", Value |-> value]
BooleanLiteral(value) == [t |-> "BooleanLiteral", Value |-> value]
NullLiteral == [t |-> "NullLiteral"]
ArrayLiteral(elements) == [t |-> "ArrayLiteral", Elements |-> elements]
\* ObjectLiteral.Pairs is a Go map keyed by the key node's identity: every
\* parsed pair is an entry of its own, here in the order of insertion, and
\* the order in which `range` visits the entries is unspecified.
ObjectLiteral(pairs) == [t |-> "ObjectLiteral", Pairs |-> pairs]
Pair(key, value) == [Key |-> key, Val |-> value]
Reference(namespace, name) ==
  [t |-> "Reference", Namespace |-> namespace, Name |-> name, ResolvedValue |-> Nil]
EnvDirective(varName, defaultValue) ==
  [t |-> "EnvDirective", VarName |-> varName, DefaultValue |-> defaultValue,
   ResolvedValue |-> Nil]
TemplateStringLiteral(value, parts) ==
  [t |-> "TemplateStringLiteral", Value |-> value, Parts |-> parts]
TemplateStringPart(isLiteral, content, expr) ==
  [IsLiteral |-> isLiteral, Content |-> content, Expr |-> expr]
DirectiveStatement(name, parameters, body) ==
  [t |-> "DirectiveStatement", Name |-> name, Parameters |-> parameters, Body |-> body]
AssignmentStatement(name, value) ==
  [t |-> "AssignmentStatement", Name |-> name, Value |-> value]
TableStatement(path, body) == [t |-> "TableStatement", Path |-> path, Body |-> body]

(***************************************************************************)
(* Characters                                                              *)
(***************************************************************************)
\* The byte 0, which the lexer also uses as its end-of-input marker.
NUL == "NUL"

\* The backquote byte (a TLA+ string cannot hold it).
BT == "BACKQUOTE"

LowerLetters ==
  {"a","b","c","d","e","f","g","h","i","j","k","l","m",
   "n","o","p","q","r","s","t","u","v","w","x","y","z"}

UpperLetters ==
  {"A","B","C","D","E","F","G","H","I","J","K","L","M",
   "N","O","P","Q","R","S","T","U","V","W","X","Y","Z"}

Digits == {"0","1","2","3","4","5","6","7","8","9"}

\* lexer.isLetter
isLetter(ch) == ch \in LowerLetters \cup UpperLetters

\* lexer.isDigit
isDigit(ch) == ch \in Digits

\* parser.isLetter (the parser's own helper also accepts '_')
parserIsLetter(ch) == ch \in LowerLetters \cup UpperLetters \cup {"_"}

\* A Go string built from its bytes.
RECURSIVE Str(_)
Str(cs) == IF cs = <<>> THEN "" ELSE Head(cs) \o Str(Tail(cs))

\* Go's s[a:b] on a 0-based byte string.
Slice(s, a, b) == SubSeq(s, a + 1, b)

(***************************************************************************)
(* Lexer                                                                   *)
(***************************************************************************)
Token(type, literal) == [Type |-> type, Literal |-> literal]

\* Lexer.readChar
readChar(l) ==
  [l EXCEPT !.ch = IF l.readPosition >= Len(l.input)
                     THEN NUL
                     ELSE l.input[l.readPosition + 1],
            !.position = l.readPosition,
            !.readPosition = l.readPosition + 1]

\* lexer.New
NewLexer(input) ==
  readChar([input |-> input, position |-> 0, readPosition |-> 0, ch |-> NUL])

\* Lexer.peekChar
peekChar(l) ==
  IF l.readPosition >= Len(l.input) THEN NUL ELSE l.input[l.readPosition + 1]

\* Lexer.peekCharAt
peekCharAt(l, offset) ==
  LET pos == l.readPosition + offset - 1
  IN IF pos >= Len(l.input) THEN NUL ELSE l.input[pos + 1]

\* Lexer.skipWhitespace
RECURSIVE skipWhitespace(_)
skipWhitespace(l) ==
  IF l.ch \in {" ", "\t", "\n", "\r"} THEN skipWhitespace(readChar(l)) ELSE l

\* The loop of Lexer.readIdentifier
RECURSIVE identLoop(_)
identLoop(l) ==
  IF isLetter(l.ch) \/ isDigit(l.ch) \/ l.ch = "_" THEN identLoop(readChar(l)) ELSE l

\* What a read function returns: the lexer where it stopped, at l1, and
\* the text input[from:l1.position]
Span(l1, from) == [l |-> l1, lit |-> Slice(l1.input, from, l1.position)]

\* Lexer.readIdentifier
readIdentifier(l) == Span(identLoop(l), l.position)

\* The digit loops of Lexer.readNumber
RECURSIVE digitLoop(_)
digitLoop(l) == IF isDigit(l.ch) THEN digitLoop(readChar(l)) ELSE l

\* The fraction of Lexer.readNumber: a "." that a digit follows, and digits
readFraction(l) ==
  IF l.ch = "." /\ isDigit(peekChar(l)) THEN digitLoop(readChar(l)) ELSE l

\* Lexer.readNumber
readNumber(l) ==
  Span(readFraction(digitLoop(IF l.ch = "-" THEN readChar(l) ELSE l)), l.position)

\* The loop shared by readString, readSingleQuotedString and
\* readTemplateString: read until the closing quote or the byte 0.
RECURSIVE untilQuote(_, _)
RECURSIVE untilQuoteAt(_, _)
untilQuoteAt(l, q) == IF l.ch = q \/ l.ch = NUL THEN l ELSE untilQuote(l, q)

untilQuote(l, q) == untilQuoteAt(readChar(l), q)

\* Lexer.readString
readString(l) == Span(untilQuote(l, "\""), l.position + 1)

\* Lexer.readSingleQuotedString
readSingleQuotedString(l) == Span(untilQuote(l, "'"), l.position + 1)

\* Lexer.readTemplateString
readTemplateString(l) == Span(untilQuote(l, BT), l.position + 1)

\* The loop of Lexer.readTripleQuotedString
RECURSIVE tripleLoop(_)
tripleLoop(l) ==
  IF l.ch = NUL THEN l
  ELSE IF l.ch = "\"" /\ peekChar(l) = "\"" /\ peekCharAt(l, 2) = "\"" THEN l
  ELSE tripleLoop(readChar(l))

\* Lexer.readTripleQuotedString
tripleEnd(l2, start) ==
  [l |-> readChar(readChar(l2)), lit |-> Slice(l2.input, start, l2.position)]

readTripleQuotedString(l) ==
  tripleEnd(tripleLoop(readChar(readChar(readChar(l)))), l.position + 3)

\* The loop of Lexer.readSingleLineComment
RECURSIVE lineCommentLoop(_)
lineCommentLoop(l) ==
  IF l.ch # "\n" /\ l.ch # NUL THEN lineCommentLoop(readChar(l)) ELSE l

\* Lexer.readSingleLineComment
readSingleLineComment(l) == Span(lineCommentLoop(l), l.position)

\* The loop of Lexer.readMultiLineComment
RECURSIVE blockCommentLoop(_)
blockCommentLoop(l) ==
  IF l.ch = NUL THEN l
  ELSE IF l.ch = "*" /\ peekChar(l) = "/" THEN readChar(readChar(l))
  ELSE blockCommentLoop(readChar(l))

\* Lexer.readMultiLineComment
readMultiLineComment(l) == Span(blockCommentLoop(readChar(readChar(l))), l.position)

\* lexer.lookupIdent
lookupIdent(ident) ==
  CASE ident = <<"t","r","u","e">> -> "TRUE"
    [] ident = <<"f","a","l","s","e">> -> "FALSE"
    [] ident = <<"n","u","l","l">> -> "NULL"
    [] OTHER -> "IDENT"

\* The token kind of each single-character punctuation byte (Lexer.scanToken)
Punctuation ==
  [c \in {"=", ":", ",", ";", "(", ")", "{", "}", "[", "]", "@", "#", "."} |->
     CASE c = "=" -> "ASSIGN"   [] c = ":" -> "COLON"    [] c = "," -> "COMMA"
       [] c = ";" -> "SEMICOLON" [] c = "(" -> "LPAREN"  [] c = ")" -> "RPAREN"
       [] c = "{" -> "LBRACE"   [] c = "}" -> "RBRACE"   [] c = "[" -> "LBRACKET"
       [] c = "]" -> "RBRACKET" [] c = "@" -> "AT"       [] c = "#" -> "HASH"
       [] c = "." -> "DOT"]

\* What scanToken leaves: the lexer and the token made of a read text
Scanned(r, type) == [l |-> r.l, tok |-> Token(type, r.lit)]

\* Lexer.handleStringToken
handleStringToken(l) ==
  IF peekChar(l) = "\"" /\ peekCharAt(l, 2) = "\""
    THEN Scanned(readTripleQuotedString(l), "STRING")
    ELSE Scanned(readString(l), "STRING")

\* Lexer.handleSingleQuotedStringToken
handleSingleQuotedStringToken(l) == Scanned(readSingleQuotedString(l), "STRING")

\* Lexer.handleTemplateStringToken
handleTemplateStringToken(l) == Scanned(readTemplateString(l), "TEMPLATE_STRING")

\* Lexer.handleSlashToken
handleSlashToken(l) ==
  IF peekChar(l) = "/"
    THEN Scanned(readSingleLineComment(l), "COMMENT")
  ELSE IF peekChar(l) = "*"
    THEN Scanned(readMultiLineComment(l), "COMMENT")
  ELSE [l |-> l, tok |-> Token("ILLEGAL", <<l.ch>>)]

\* Lexer.handleDefaultToken.  The literal of an illegal token is the text
\* "unexpected character " followed by a description of the byte.
identToken(r) == Scanned(r, lookupIdent(r.lit))

handleDefaultToken(l) ==
  IF isLetter(l.ch)
    THEN identToken(readIdentifier(l))
  ELSE IF isDigit(l.ch) \/ (l.ch = "-" /\ isDigit(peekChar(l)))
    THEN Scanned(readNumber(l), "NUMBER")
  ELSE [l |-> l, tok |-> Token("ILLEGAL", <<"unexpected character ", l.ch>>)]

\* Lexer.scanToken
scanToken(l) ==
  CASE l.ch \in DOMAIN Punctuation -> [l |-> l, tok |-> Token(Punctuation[l.ch], <<l.ch>>)]
    [] l.ch = "\"" -> handleStringToken(l)
    [] l.ch = "'" -> handleSingleQuotedStringToken(l)
    [] l.ch = BT -> handleTemplateStringToken(l)
    [] l.ch = "/" -> handleSlashToken(l)
    [] l.ch = NUL -> [l |-> l, tok |-> Token("EOF", <<>>)]
    [] OTHER -> handleDefaultToken(l)

\* Whether Lexer.NextToken reads one more byte after scanToken has returned.
advanceAfter(type) == type # "IDENT" /\ type # "NUMBER"

\* The end of Lexer.NextToken, on what scanToken left
afterScan(r) ==
  IF advanceAfter(r.tok.Type) THEN [l |-> readChar(r.l), tok |-> r.tok] ELSE r

\* Lexer.NextToken
NextToken(l) == afterScan(scanToken(skipWhitespace(l)))

\* The tokens that successive NextToken calls return from lexer l while
\* input is left.  Once position has reached the end of the input, ch is 0
\* for good and every further call returns EOF.
RECURSIVE TokenStream(_)
RECURSIVE streamFrom(_)
streamFrom(r) == <<r.tok>> \o TokenStream(r.l)

TokenStream(l) == IF l.position >= Len(l.input) THEN <<>> ELSE streamFrom(NextToken(l))

(***************************************************************************)
(* strconv and strings helpers                                             *)
(***************************************************************************)
DigitVal(c) ==
  CASE c = "0" -> 0 [] c = "1" -> 1 [] c = "2" -> 2 [] c = "3" -> 3 [] c = "4" -> 4
    [] c = "5" -> 5 [] c = "6" -> 6 [] c = "7" -> 7 [] c = "8" -> 8 [] c = "9" -> 9

RECURSIVE StripZeros(_)
StripZeros(ds) == IF ds # <<>> /\ Head(ds) = "0" THEN StripZeros(Tail(ds)) ELSE ds

\* Lexicographic "a > b" on two digit strings of equal length
RECURSIVE DigitsGreater(_, _)
DigitsGreater(a, b) ==
  IF a = <<>> THEN FALSE
  ELSE IF DigitVal(Head(a)) # DigitVal(Head(b)) THEN DigitVal(Head(a)) > DigitVal(Head(b))
  ELSE DigitsGreater(Tail(a), Tail(b))

\* The decimal digits of 2^63 - 1 and of 2^63
MaxInt64Digits == <<"9","2","2","3","3","7","2","0","3","6","8","5","4","7","7","5","8","0","7">>
MinInt64Digits == <<"9","2","2","3","3","7","2","0","3","6","8","5","4","7","7","5","8","0","8">>

\* Whether the magnitude spelled by decimal digits ds exceeds the one spelled by lim
ExceedsDigits(ds, lim) ==
  LET d == StripZeros(ds)
  IN Len(d) > Len(lim) \/ (Len(d) = Len(lim) /\ DigitsGreater(d, lim))

RECURSIVE Horner(_, _, _)
Horner(ds, base, acc) ==
  IF ds = <<>> THEN acc ELSE Horner(Tail(ds), base, acc * base + DigitVal(Head(ds)))

\* The number of octal digits of 2^63 - 1 is 21, the leading one being 7
OctalExceeds(ds) == Len(StripZeros(ds)) > 21

\* strconv.ParseInt(s, base, 64) for base 10 and for base 0, on texts made of
\* a sign and digits (base 0: a leading "0" selects octal).  Any other byte
\* is a syntax error, as it is in the library for these bases unless the text
\* carries a 0b/0o/0x prefix.
parseDigits(neg, ds, b, emptyOk, outOfRange) ==
  IF /\ ds # <<>> \/ emptyOk
     /\ \A i \in 1..Len(ds) : isDigit(ds[i]) /\ DigitVal(ds[i]) < b
     /\ ~outOfRange
    THEN [ok |-> TRUE, v |-> IF neg THEN 0 - Horner(ds, b, 0) ELSE Horner(ds, b, 0)]
    ELSE [ok |-> FALSE, v |-> 0]

parseUnsigned(neg, body, base) ==
  IF base = 0 /\ body # <<>> /\ Head(body) = "0"
    THEN parseDigits(neg, Tail(body), 8, TRUE, OctalExceeds(Tail(body)))
    ELSE parseDigits(neg, body, 10, FALSE,
                     ExceedsDigits(body, IF neg THEN MinInt64Digits ELSE MaxInt64Digits))

ParseInt(s, base) ==
  parseUnsigned(s # <<>> /\ Head(s) = "-",
                IF s # <<>> /\ Head(s) \in {"+", "-"} THEN Tail(s) ELSE s, base)

\* Remove factors of ten from a mantissa
RECURSIVE NormFloat(_, _)
NormFloat(m, e) ==
  IF m = 0 THEN FloatV(0, 0)
  ELSE IF m % 10 = 0 THEN NormFloat(m \div 10, e + 1)
  ELSE FloatV(m, e)

LowerOf(c) ==
  CASE c = "I" -> "i" [] c = "N" -> "n" [] c = "F" -> "f" [] c = "A" -> "a"
    [] c = "T" -> "t" [] c = "Y" -> "y" [] c = "E" -> "e" [] OTHER -> c

\* strconv.ParseFloat(s, 64) on decimal texts: sign, digits, optional
\* fraction, optional exponent, and the words inf, infinity and nan.
\* Hexadecimal floating-point text is not covered.
firstIndex(s, c) ==
  IF \E i \in 1..Len(s) : s[i] = c
    THEN CHOOSE i \in 1..Len(s) : s[i] = c /\ \A j \in 1..(i-1) : s[j] # c
    ELSE Len(s) + 1

parseFloatParts(neg, ip, fp, hasExp, expNeg, expd) ==
  IF /\ \A i \in 1..Len(ip) : isDigit(ip[i])
     /\ \A i \in 1..Len(fp) : isDigit(fp[i])
     /\ Len(ip) + Len(fp) > 0
     /\ ~hasExp \/ (expd # <<>> /\ \A i \in 1..Len(expd) : isDigit(expd[i]))
    THEN [ok |-> TRUE,
          v |-> NormFloat(IF neg THEN 0 - Horner(ip \o fp, 10, 0) ELSE Horner(ip \o fp, 10, 0),
                          (IF ~hasExp THEN 0
                           ELSE IF expNeg THEN 0 - Horner(expd, 10, 0)
                           ELSE Horner(expd, 10, 0)) - Len(fp))]
    ELSE [ok |-> FALSE, v |-> Nil]

parseFloatMantissa(neg, mant, hasExp, expo) ==
  parseFloatParts(neg,
                  SubSeq(mant, 1, firstIndex(mant, ".") - 1),
                  SubSeq(mant, firstIndex(mant, ".") + 1, Len(mant)),
                  hasExp,
                  expo # <<>> /\ Head(expo) = "-",
                  IF expo # <<>> /\ Head(expo) \in {"+", "-"} THEN Tail(expo) ELSE expo)

parseFloatDecimal(neg, body, epos) ==
  parseFloatMantissa(neg, SubSeq(body, 1, epos - 1), epos <= Len(body),
                     SubSeq(body, epos + 1, Len(body)))

parseFloatWord(neg, signed, body, low) ==
  IF Str(low) \in {"inf", "infinity"}
    THEN [ok |-> TRUE, v |-> FloatSpecial(IF neg THEN "-Inf" ELSE "+Inf")]
  ELSE IF Str(low) = "nan" /\ ~signed
    THEN [ok |-> TRUE, v |-> FloatSpecial("NaN")]
  ELSE parseFloatDecimal(neg, body, firstIndex(low, "e"))

parseFloatBody(neg, signed, body) ==
  parseFloatWord(neg, signed, body, [i \in 1..Len(body) |-> LowerOf(body[i])])

ParseFloat(s) ==
  parseFloatBody(s # <<>> /\ Head(s) = "-", s # <<>> /\ Head(s) \in {"+", "-"},
                 IF s # <<>> /\ Head(s) \in {"+", "-"} THEN Tail(s) ELSE s)

\* strings.Contains(s, c) for a one-byte c
Contains(s, c) == \E i \in 1..Len(s) : s[i] = c

\* strings.Index(s, sub): the 0-based index of the first occurrence, or -1
Index(s, sub) ==
  LET hits == {i \in 0..(Len(s) - Len(sub)) : SubSeq(s, i + 1, i + Len(sub)) = sub}
  IN IF hits = {} THEN -1 ELSE CHOOSE i \in hits : \A j \in hits : i <= j

\* strings.TrimSpace
RECURSIVE TrimLeft(_)
TrimLeft(s) ==
  IF s # <<>> /\ Head(s) \in {" ", "\t", "\n", "\r"} THEN TrimLeft(Tail(s)) ELSE s

RECURSIVE TrimRight(_)
TrimRight(s) ==
  IF s # <<>> /\ s[Len(s)] \in {" ", "\t", "\n", "\r"}
    THEN TrimRight(SubSeq(s, 1, Len(s) - 1)) ELSE s

TrimSpace(s) == TrimRight(TrimLeft(s))

\* The decimal digits of a natural number
RECURSIVE NatToStr(_)
NatToStr(n) ==
  LET d == <<"0","1","2","3","4","5","6","7","8","9">>[(n % 10) + 1]
  IN IF n < 10 THEN d ELSE NatToStr(n \div 10) \o d

\* strconv.FormatInt(n, 10)
IntToStr(n) == IF n < 0 THEN "-" \o NatToStr(0 - n) ELSE NatToStr(n)

(***************************************************************************)
(* Parser.  A parser state p holds the lexer, curToken, peekToken and the  *)
(* error list; panic is set once an operation of the Go code would panic   *)
(* (the rest of that parse is then of no consequence).  Each parse         *)
(* function returns the new parser state and its result.                   *)
(***************************************************************************)
\* TokenType.String
TokenTypeString(type) ==
  CASE type = "ASSIGN" -> "="   [] type = "COLON" -> ":"    [] type = "COMMA" -> ","
    [] type = "SEMICOLON" -> ";" [] type = "LPAREN" -> "("  [] type = "RPAREN" -> ")"
    [] type = "LBRACE" -> "{"   [] type = "RBRACE" -> "}"   [] type = "LBRACKET" -> "["
    [] type = "RBRACKET" -> "]" [] type = "AT" -> "@"       [] type = "HASH" -> "#"
    [] type = "DOT" -> "."      [] OTHER -> type

\* errors.CompilerError; Brace marks a message that went through the error
\* reporter's file-level @brace formatting (Parser.addBraceDirectiveError).
CompilerError(msg, brace) == [Message |-> msg, Brace |-> brace]

\* Parser.nextToken.  The lexer is deterministic and serves this parser
\* alone, so the parser's lexer p.l is held as the tokens its successive
\* NextToken calls return while input is left (TokenStream) and the number
\* of calls made; every later call returns EOF.
nextToken(p) ==
  [p EXCEPT !.curToken = p.peekToken,
            !.peekToken = IF p.l.n < Len(p.l.toks)
                            THEN p.l.toks[p.l.n + 1]
                            ELSE Token("EOF", <<>>),
            !.l = [toks |-> p.l.toks, n |-> p.l.n + 1]]

\* parser.New
NewParser(l) ==
  nextToken(nextToken([l |-> [toks |-> TokenStream(l), n |-> 0],
                       curToken |-> Token("ILLEGAL", <<>>),
                       peekToken |-> Token("ILLEGAL", <<>>),
                       errors |-> <<>>, panic |-> FALSE]))

\* Parser.addError
addError(p, msg) == [p EXCEPT !.errors = Append(@, CompilerError(msg, FALSE))]

\* Parser.addBraceDirectiveError
addBraceDirectiveError(p, msg) == [p EXCEPT !.errors = Append(@, CompilerError(msg, TRUE))]

\* Parser.peekError
peekError(p, expected) ==
  addError(p, "expected next token to be " \o TokenTypeString(expected) \o ", got "
              \o TokenTypeString(p.peekToken.Type) \o " instead")

\* Parser.expectPeek
expectPeek(p, type) ==
  IF p.peekToken.Type = type
    THEN [p |-> nextToken(p), ok |-> TRUE]
    ELSE [p |-> peekError(p, type), ok |-> FALSE]

\* What a parse function leaves: the parser and the node it returns
Ret(p, n) == [p |-> p, n |-> n]

\* parser.isValidIdentifier
isValidIdentifier(s) ==
  /\ Len(s) > 0
  /\ parserIsLetter(s[1]) \/ s[1] = "_"
  /\ \A i \in 2..Len(s) : parserIsLetter(s[i]) \/ isDigit(s[i]) \/ s[i] = "_"

\* Parser.parseInterpolationExpression, the last two branches: a number if
\* ParseFloat accepts the content, else an identifier
interpolationNumber(content, float) ==
  IF float.ok THEN NumberLiteral(float.v) ELSE Identifier(Str(content))

\* Parser.parseInterpolationExpression.  The result is the expression, or
\* "panic" where the code slices content[1:len(content)-1] on a one-byte
\* content.
parseInterpolationExpression(raw) ==
  LET content == TrimSpace(raw)
      refContent == Tail(content)
      dotIndex == Index(refContent, <<".">>)
  IN IF content # <<>> /\ Head(content) = ":"
       THEN IF dotIndex # -1
              THEN Reference(Str(Slice(refContent, 0, dotIndex)),
                             Str(Slice(refContent, dotIndex + 1, Len(refContent))))
              ELSE Reference("", Str(refContent))
     ELSE IF isValidIdentifier(content) THEN Identifier(Str(content))
     ELSE IF content # <<>> /\ Head(content) = "\"" /\ content[Len(content)] = "\""
       THEN IF Len(content) = 1
              THEN [t |-> "panic"]
              ELSE StringLiteral(Str(Slice(content, 1, Len(content) - 1)))
     ELSE interpolationNumber(content, ParseFloat(content))

\* Parser.parseTemplateStringParts: the loop, from index i with the parts
\* found so far; templateExpr has the parsed interpolation expr
RECURSIVE templateParts(_, _, _, _)
RECURSIVE templateExpr(_, _, _, _, _, _)
templateExpr(p, template, next, parts, exprContent, expr) ==
  IF expr.t = "panic"
    THEN Ret([p EXCEPT !.panic = TRUE], parts)
    ELSE templateParts(p, template, next,
                       Append(parts, TemplateStringPart(FALSE, Str(exprContent), expr)))

templateParts(p, template, i, parts) ==
  LET start == Index(Slice(template, i, Len(template)), <<"$", "{">>)
      literal == IF start > 0
                   THEN Append(parts, TemplateStringPart(TRUE,
                                        Str(Slice(template, i, i + start)), NilNode))
                   ELSE parts
      from == i + start + 2
      end == Index(Slice(template, from, Len(template)), <<"}">>)
      exprContent == Slice(template, from, from + end)
  IN IF i >= Len(template) THEN Ret(p, parts)
     ELSE IF start = -1
       THEN Ret(p, Append(parts,
                  TemplateStringPart(TRUE, Str(Slice(template, i, Len(template))), NilNode)))
     ELSE IF end = -1
       THEN Ret(addError(p, "unclosed interpolation in template string"), literal)
     ELSE templateExpr(p, template, from + end + 1, literal, exprContent,
                       parseInterpolationExpression(exprContent))

\* Parser.parseTemplateStringParts
parseTemplateStringParts(p, template) == templateParts(p, template, 0, <<>>)

\* Parser.parseTemplateStringLiteral
parseTemplateStringLiteral(p) ==
  LET r == parseTemplateStringParts(p, p.curToken.Literal)
  IN Ret(r.p, TemplateStringLiteral(Str(p.curToken.Literal), r.n))

\* Parser.parseIdentifier
parseIdentifier(p) == Ret(p, Identifier(Str(p.curToken.Literal)))

\* Parser.parseStringLiteral
parseStringLiteral(p) == Ret(p, StringLiteral(Str(p.curToken.Literal)))

\* A faulty parseNumberLiteral, which keeps the digits as text: the emitted
\* mapping must tell a number from its spelling
parseNumberAsString(p) == Ret(p, StringLiteral(Str(p.curToken.Literal)))

\* Parser.parseNumberLiteral, the branch without "." on ParseInt's result
integerLiteral(p, int) ==
  IF int.ok
    THEN Ret(p, NumberLiteral(IntV(int.v)))
    ELSE Ret(addError(p, "could not parse \"" \o Str(p.curToken.Literal) \o "\" as integer"),
             NilNode)

\* Parser.parseNumberLiteral, the branch with "." on ParseFloat's result
floatLiteral(p, float) ==
  IF float.ok
    THEN Ret(p, NumberLiteral(float.v))
    ELSE Ret(addError(p, "could not parse \"" \o Str(p.curToken.Literal) \o "\" as float"),
             NilNode)

\* Parser.parseNumberLiteral
parseNumberLiteral(p) ==
  IF ~Contains(p.curToken.Literal, ".")
    THEN integerLiteral(p, ParseInt(p.curToken.Literal, 0))
    ELSE floatLiteral(p, ParseFloat(p.curToken.Literal))

\* Parser.parseBooleanLiteral
parseBooleanLiteral(p) == Ret(p, BooleanLiteral(p.curToken.Type = "TRUE"))

\* Parser.parseNullLiteral
parseNullLiteral(p) == Ret(p, NullLiteral)

\* Parser.parseReference
parseReference(p) ==
  LET r1 == expectPeek(p, "IDENT")
      first == Str(r1.p.curToken.Literal)
      r2 == expectPeek(nextToken(r1.p), "IDENT")
  IN IF ~r1.ok THEN Ret(r1.p, NilNode)
     ELSE IF r1.p.peekToken.Type = "DOT"
       THEN IF ~r2.ok THEN Ret(r2.p, NilNode)
            ELSE Ret(r2.p, Reference(first, Str(r2.p.curToken.Literal)))
     ELSE Ret(r1.p, Reference("", first))

\* Parser.skipCommentsInObject
RECURSIVE skipCommentsInObject(_)
skipCommentsInObject(p) ==
  LET p1 == nextToken(p)
  IN IF p.curToken.Type # "COMMENT" THEN p
     ELSE IF p1.curToken.Type = "RBRACE" THEN p1
     ELSE skipCommentsInObject(p1)

\* Parser.skipTrailingComments
RECURSIVE skipTrailingComments(_)
skipTrailingComments(p) ==
  IF p.peekToken.Type = "COMMENT" THEN skipTrailingComments(nextToken(p)) ELSE p

\* Parser.handleObjectSeparators
handleObjectSeparators(p) ==
  LET p1 == nextToken(p)
  IN CASE p.peekToken.Type = "COMMA" ->
            IF p1.peekToken.Type = "RBRACE"
              THEN [p |-> p1, ok |-> FALSE]
              ELSE [p |-> nextToken(p1), ok |-> TRUE]
       [] p.peekToken.Type = "RBRACE" -> [p |-> p, ok |-> FALSE]
       [] p.peekToken.Type \in {"IDENT", "COMMENT"} -> [p |-> p1, ok |-> TRUE]
       [] OTHER -> [p |-> p, ok |-> FALSE]

RECURSIVE parseExpression(_)
RECURSIVE parseObjectLiteral(_)
RECURSIVE parseObjectPairs(_, _)
RECURSIVE parseObjectPair(_, _)
RECURSIVE parseArrayLiteral(_)
RECURSIVE parseExpressionList(_, _)
RECURSIVE expressionListTail(_, _)
RECURSIVE parseDirectiveExpression(_)

\* Parser.parseObjectPair from the parsed value v on: the insertion
objectPairValue(key, v, pairs) ==
  IF IsNil(v.n)
    THEN [p |-> addError(v.p, "failed to parse object value"), ok |-> FALSE, pairs |-> pairs]
    ELSE [p |-> v.p, ok |-> TRUE, pairs |-> Append(pairs, Pair(key, v.n))]

\* Parser.parseObjectPair from the parsed key k on
objectPairKey(k, pairs) ==
  LET r == expectPeek(k.p, "ASSIGN")
  IN IF IsNil(k.n)
       THEN [p |-> addError(k.p, "failed to parse object key"), ok |-> FALSE, pairs |-> pairs]
     ELSE IF ~r.ok THEN [p |-> r.p, ok |-> FALSE, pairs |-> pairs]
     ELSE objectPairValue(k.n, parseExpression(nextToken(r.p)), pairs)

\* Parser.parseObjectPair: parses one pair and inserts it into the pairs
parseObjectPair(p, pairs) == objectPairKey(parseExpression(p), pairs)

\* The loop of Parser.parseObjectPairs from the parsed pair r on
objectPairsParsed(r) ==
  LET sep == handleObjectSeparators(skipTrailingComments(r.p))
  IN IF ~r.ok THEN [p |-> r.p, ok |-> FALSE, pairs |-> r.pairs]
     ELSE IF ~sep.ok THEN [p |-> sep.p, ok |-> TRUE, pairs |-> r.pairs]
     ELSE parseObjectPairs(sep.p, r.pairs)

\* Parser.parseObjectPairs
parseObjectPairs(p, pairs) ==
  LET p1 == skipCommentsInObject(p)
  IN IF p1.curToken.Type = "RBRACE"
       THEN [p |-> p1, ok |-> TRUE, pairs |-> pairs]
       ELSE objectPairsParsed(parseObjectPair(p1, pairs))

\* Parser.parseObjectLiteral from the parsed pairs r on
objectLiteralPairs(r) ==
  LET e == expectPeek(r.p, "RBRACE")
  IN IF ~r.ok THEN Ret(r.p, NilNode)
     ELSE IF ~e.ok THEN Ret(e.p, NilNode)
     ELSE Ret(e.p, ObjectLiteral(r.pairs))

\* Parser.parseObjectLiteral
parseObjectLiteral(p) ==
  IF p.peekToken.Type = "RBRACE"
    THEN Ret(nextToken(p), ObjectLiteral(<<>>))
    ELSE objectLiteralPairs(parseObjectPairs(nextToken(p), <<>>))

\* The loop of Parser.parseExpressionList
expressionListNext(r, args) == expressionListTail(r.p, Append(args, r.n))

expressionListTail(p, args) ==
  IF p.peekToken.Type = "COMMA"
    THEN expressionListNext(parseExpression(nextToken(nextToken(p))), args)
    ELSE Ret(p, args)

\* Parser.parseExpressionList after the loop (a nil result slice is the empty
\* sequence)
expressionListEnd(rest, end) ==
  LET e == expectPeek(rest.p, end)
  IN IF ~e.ok THEN Ret(e.p, <<>>) ELSE Ret(e.p, rest.n)

\* Parser.parseExpressionList after the first element
expressionListFirst(first, end) ==
  expressionListEnd(expressionListTail(first.p, <<first.n>>), end)

\* Parser.parseExpressionList
parseExpressionList(p, end) ==
  IF p.peekToken.Type = end
    THEN Ret(nextToken(p), <<>>)
    ELSE expressionListFirst(parseExpression(nextToken(p)), end)

\* Parser.parseArrayLiteral on the parsed elements
arrayOf(r) == Ret(r.p, ArrayLiteral(r.n))

\* Parser.parseArrayLiteral
parseArrayLiteral(p) == arrayOf(parseExpressionList(p, "RBRACKET"))

\* Parser.parseDirectiveExpression after the optional default value d
envDirectiveDefault(varName, d) ==
  LET r4 == expectPeek(d.p, "RPAREN")
  IN IF ~r4.ok THEN Ret(r4.p, NilNode) ELSE Ret(r4.p, EnvDirective(varName, d.n))

\* Parser.parseDirectiveExpression
parseDirectiveExpression(p) ==
  LET r1 == expectPeek(p, "IDENT")
      r2 == expectPeek(r1.p, "LPAREN")
      r3 == expectPeek(r2.p, "STRING")
  IN IF ~r1.ok THEN Ret(r1.p, NilNode)
     ELSE IF r1.p.curToken.Literal # <<"e", "n", "v">>
       THEN Ret(addError(r1.p, "unknown directive in expression context: "
                                 \o Str(r1.p.curToken.Literal)), NilNode)
     ELSE IF ~r2.ok THEN Ret(r2.p, NilNode)
     ELSE IF ~r3.ok THEN Ret(r3.p, NilNode)
     ELSE envDirectiveDefault(Str(r3.p.curToken.Literal),
                              IF r3.p.peekToken.Type = "COMMA"
                                THEN parseExpression(nextToken(nextToken(r3.p)))
                                ELSE Ret(r3.p, NilNode))

\* Parser.parseExpression
parseExpression(p) ==
  CASE p.curToken.Type = "IDENT" -> parseIdentifier(p)
    [] p.curToken.Type = "STRING" -> parseStringLiteral(p)
    [] p.curToken.Type = "NUMBER" -> parseNumberLiteral(p)
    [] p.curToken.Type \in {"TRUE", "FALSE"} -> parseBooleanLiteral(p)
    [] p.curToken.Type = "NULL" -> parseNullLiteral(p)
    [] p.curToken.Type = "LBRACE" -> parseObjectLiteral(p)
    [] p.curToken.Type = "LBRACKET" -> parseArrayLiteral(p)
    [] p.curToken.Type = "COLON" -> parseReference(p)
    [] p.curToken.Type = "AT" -> parseDirectiveExpression(p)
    [] p.curToken.Type = "COMMENT" ->
         Ret(addError(p, "unexpected comment in expression context"), NilNode)
    [] p.curToken.Type = "ILLEGAL" ->
         Ret(addError(p, "illegal token: " \o Str(p.curToken.Literal)), NilNode)
    [] p.curToken.Type = "TEMPLATE_STRING" -> parseTemplateStringLiteral(p)
    [] OTHER -> Ret(addError(p, "no parse function for " \o TokenTypeString(p.curToken.Type)
                                  \o " found"), NilNode)

\* Parser.parseConstDirective after parseObjectLiteral
constDirectiveObject(obj, params) ==
  IF IsNil(obj.n)
    THEN Ret(addError(obj.p, "failed to parse @const body"), NilPtr("DirectiveStatement"))
    ELSE Ret(obj.p, DirectiveStatement("const", params, obj.n))

\* Parser.parseConstDirective after expectPeek(LBRACE)
constDirectiveBody(r, params) ==
  IF ~r.ok
    THEN Ret(r.p, NilPtr("DirectiveStatement"))
    ELSE constDirectiveObject(parseObjectLiteral(r.p), params)

\* Parser.parseConstDirective after the namespace parameter
constDirectiveParam(param) ==
  IF IsNil(param.n)
    THEN Ret(addError(param.p, "failed to parse @const namespace"), NilPtr("DirectiveStatement"))
    ELSE constDirectiveBody(expectPeek(param.p, "LBRACE"), <<param.n>>)

\* Parser.parseConstDirective
parseConstDirective(p) ==
  IF p.peekToken.Type = "STRING"
    THEN constDirectiveParam(parseExpression(nextToken(p)))
    ELSE constDirectiveBody(expectPeek(p, "LBRACE"), <<>>)

\* Parser.parseBraceDirective after the version parameter
braceDirectiveParam(param) ==
  IF IsNil(param.n)
    THEN Ret(addError(param.p, "failed to parse @brace version"), NilPtr("DirectiveStatement"))
    ELSE Ret(param.p, DirectiveStatement("brace", <<param.n>>, NilNode))

\* Parser.parseBraceDirective
parseBraceDirective(p) ==
  LET r == expectPeek(p, "STRING")
  IN IF ~r.ok
       THEN Ret(r.p, NilPtr("DirectiveStatement"))
       ELSE braceDirectiveParam(parseExpression(r.p))

\* Parser.parseDirectiveStatement
parseDirectiveStatement(p) ==
  LET r == expectPeek(p, "IDENT")
      name == Str(r.p.curToken.Literal)
  IN IF ~r.ok THEN Ret(r.p, NilPtr("DirectiveStatement"))
     ELSE CASE name = "const" -> parseConstDirective(r.p)
            [] name = "env" ->
                 Ret(addError(r.p, "@env directive cannot be used as a statement, only as an expression"),
                     NilPtr("DirectiveStatement"))
            [] name = "brace" -> parseBraceDirective(r.p)
            [] OTHER -> Ret(addError(r.p, "unknown directive: " \o name),
                            NilPtr("DirectiveStatement"))

\* Parser.parseAssignmentStatement after the value: the optional semicolon
assignmentEnd(name, v) ==
  Ret(IF v.p.peekToken.Type = "SEMICOLON" THEN nextToken(v.p) ELSE v.p,
      AssignmentStatement(name, v.n))

\* Parser.parseAssignmentStatement
parseAssignmentStatement(p) ==
  LET r == expectPeek(p, "ASSIGN")
  IN IF ~r.ok
       THEN Ret(r.p, NilPtr("AssignmentStatement"))
       ELSE assignmentEnd(Identifier(Str(p.curToken.Literal)), parseExpression(nextToken(r.p)))

\* The path loop of Parser.parseTableStatement
RECURSIVE tablePath(_, _)
tablePath(p, path) ==
  LET r == expectPeek(nextToken(p), "IDENT")
  IN IF p.peekToken.Type # "DOT" THEN [p |-> p, ok |-> TRUE, path |-> path]
     ELSE IF ~r.ok THEN [p |-> r.p, ok |-> FALSE, path |-> path]
     ELSE tablePath(r.p, Append(path, Str(r.p.curToken.Literal)))

\* Parser.parseTableStatement after parseObjectLiteral
tableObject(obj, path) ==
  IF IsNil(obj.n)
    THEN Ret(addError(obj.p, "failed to parse table body"), NilPtr("TableStatement"))
    ELSE Ret(obj.p, TableStatement(path, obj.n))

\* Parser.parseTableStatement
parseTableStatement(p) ==
  LET r1 == expectPeek(p, "IDENT")
      tp == tablePath(r1.p, <<Str(r1.p.curToken.Literal)>>)
      r2 == expectPeek(tp.p, "LBRACE")
  IN IF ~r1.ok THEN Ret(r1.p, NilPtr("TableStatement"))
     ELSE IF ~tp.ok THEN Ret(tp.p, NilPtr("TableStatement"))
     ELSE IF ~r2.ok THEN Ret(r2.p, NilPtr("TableStatement"))
     ELSE tableObject(parseObjectLiteral(r2.p), tp.path)

\* Parser.parseStatement
parseStatement(p) ==
  CASE p.curToken.Type = "AT" -> parseDirectiveStatement(p)
    [] p.curToken.Type = "HASH" -> parseTableStatement(p)
    [] p.curToken.Type = "IDENT" -> parseAssignmentStatement(p)
    [] OTHER -> Ret(addError(p, "unexpected token: " \o TokenTypeString(p.curToken.Type)), NilNode)

\* The leading-comment loop of Parser.ParseProgram
RECURSIVE skipLeadingComments(_)
skipLeadingComments(p) ==
  IF p.curToken.Type = "COMMENT" THEN skipLeadingComments(nextToken(p)) ELSE p

\* Whether ParseProgram may read the fields of the first statement: reading
\* through the nil *DirectiveStatement that a failed parseDirectiveStatement
\* returns is a nil-pointer dereference.
firstStmtReadable(stmt) == ~IsNilPtr(stmt)

\* What ParseProgram has made: the parser, program.Statements, and status:
\* "loop" when the statement loop is entered, "return" when ParseProgram
\* returns and "panic" when it panics.
ProgramOut(p, stmts, status) == [p |-> p, Statements |-> stmts, status |-> status]

\* Parser.ParseProgram: the checks on the first statement r.n
programHeadDirective(r) ==
  IF r.p.panic \/ ~firstStmtReadable(r.n) THEN ProgramOut(r.p, <<>>, "panic")
  ELSE IF r.n.Name # "brace"
    THEN ProgramOut(addError(r.p, "first directive must be @brace, got @" \o r.n.Name),
                    <<>>, "return")
  ELSE IF Len(r.n.Parameters) # 1
    THEN ProgramOut(addError(r.p, "@brace directive requires exactly one version parameter"),
                    <<>>, "return")
  ELSE IF r.n.Parameters[1].t # "StringLiteral"
    THEN ProgramOut(addError(r.p, "@brace version must be a string literal"), <<>>, "return")
  ELSE ProgramOut(nextToken(r.p), <<r.n>>, "loop")

\* Parser.ParseProgram up to the statement loop
parseProgramHead(p) ==
  LET p1 == skipLeadingComments(p)
  IN IF p1.curToken.Type = "EOF"
       THEN ProgramOut(addBraceDirectiveError(p1, "empty BRACE file - must start with @brace directive"),
                       <<>>, "return")
     ELSE IF p1.curToken.Type # "AT"
       THEN ProgramOut(addBraceDirectiveError(p1, "BRACE file must start with @brace directive"),
                       <<>>, "return")
     ELSE programHeadDirective(parseStatement(p1))

\* Whether the statement loop of ParseProgram appends the statement it parsed
\* (`stmt != nil` on the interface value).
appendsStatement(stmt) == ~IsNil(stmt)

\* A faulty iteration, which gives the rest of the input up once an error is
\* recorded: the statements after a failed one must depend on the loop going on
programStepStops(r, stmts) ==
  [p |-> IF Len(r.p.errors) > 0
           THEN [r.p EXCEPT !.curToken = Token("EOF", <<>>)]
           ELSE nextToken(r.p),
   Statements |-> IF appendsStatement(r.n) THEN Append(stmts, r.n) ELSE stmts]

\* One iteration of the statement loop, after parseStatement
programStepParsed(r, stmts) ==
  [p |-> nextToken(r.p),
   Statements |-> IF appendsStatement(r.n) THEN Append(stmts, r.n) ELSE stmts]

\* One iteration of the statement loop of Parser.ParseProgram
parseProgramStep(p, stmts) ==
  IF p.curToken.Type = "COMMENT"
    THEN [p |-> nextToken(p), Statements |-> stmts]
    ELSE programStepParsed(parseStatement(p), stmts)

\* Parser.ParseProgram as a function: the statements, the final parser state
\* and whether the call panicked
RECURSIVE parseProgramLoop(_, _)
RECURSIVE programLoopNext(_)
programLoopNext(r) == parseProgramLoop(r.p, r.Statements)

parseProgramLoop(p, stmts) ==
  IF p.panic THEN ProgramOut(p, stmts, "panic")
  ELSE IF p.curToken.Type = "EOF" THEN ProgramOut(p, stmts, "return")
  ELSE programLoopNext(parseProgramStep(p, stmts))

programBody(h) == IF h.status = "loop" THEN parseProgramLoop(h.p, h.Statements) ELSE h

ParseProgram(p) == programBody(parseProgramHead(p))

(***************************************************************************)
(* Analyzer.  constants maps a namespace to a map from name to value; the  *)
(* process environment environ maps a variable name to its text.           *)
(***************************************************************************)
\* The (value, error) result pair of an evaluation.  An error message is the
\* sequence of the text fragments it is concatenated from; the nil error is
\* the empty sequence.
Ok(v) == [ok |-> TRUE, v |-> v, err |-> <<>>]
Err(msg) == [ok |-> FALSE, v |-> Nil, err |-> msg]

\* os.Getenv
Getenv(environ, name) == IF name \in DOMAIN environ THEN environ[name] ELSE <<>>

\* A faulty coercion, which keeps every environment text as a string: the
\* emitted value must depend on the order of the rules
coerceAsString(value) == StrV(Str(value))

\* The typed coercion of a non-empty environment value
\* (Analyzer.evaluateEnvDirectiveExpression, second half)
coerceEnvValue(value) ==
  LET int == ParseInt(value, 10)
      float == ParseFloat(value)
  IN IF value = <<"t","r","u","e">> THEN BoolV(TRUE)
     ELSE IF value = <<"f","a","l","s","e">> THEN BoolV(FALSE)
     ELSE IF int.ok THEN IntV(int.v)
     ELSE IF float.ok THEN float.v
     ELSE StrV(Str(value))

\* Whether evaluateEnvDirectiveExpression takes the environment value
\* (`value == ""` is the test for falling back to the default)
envValueUsed(value) == value # <<>>

\* The namespace a reference is looked up in
refNamespace(ref) == IF ref.Namespace = "" THEN "global" ELSE ref.Namespace

\* The two-level lookup shared by resolveReferenceValue and resolveReference
constDefined(constants, ns, name) ==
  ns \in DOMAIN constants /\ name \in DOMAIN constants[ns]

\* Analyzer.resolveReferenceValue
resolveReferenceValue(constants, ref) ==
  IF constDefined(constants, refNamespace(ref), ref.Name)
    THEN Ok(constants[refNamespace(ref)][ref.Name])
    ELSE Err(<<"undefined reference: ", refNamespace(ref), ".", ref.Name>>)

RECURSIVE analyzerEvaluateExpression(_, _, _)
RECURSIVE evaluateEnvDirectiveExpression(_, _, _)

\* Analyzer.evaluateEnvDirectiveExpression
evaluateEnvDirectiveExpression(constants, environ, env) ==
  LET value == Getenv(environ, env.VarName)
  IN IF ~envValueUsed(value)
       THEN IF ~IsNil(env.DefaultValue)
              THEN analyzerEvaluateExpression(constants, environ, env.DefaultValue)
              ELSE Err(<<"environment variable ", env.VarName,
                         " not set and no default provided">>)
       ELSE Ok(coerceEnvValue(value))

\* Analyzer.evaluateExpression
analyzerEvaluateExpression(constants, environ, expr) ==
  CASE expr.t = "StringLiteral" -> Ok(StrV(expr.Value))
    [] expr.t = "NumberLiteral" -> Ok(expr.Value)
    [] expr.t = "BooleanLiteral" -> Ok(BoolV(expr.Value))
    [] expr.t = "NullLiteral" -> Ok(Nil)
    [] expr.t = "EnvDirective" -> evaluateEnvDirectiveExpression(constants, environ, expr)
    [] expr.t = "Reference" -> resolveReferenceValue(constants, expr)
    [] OTHER -> Err(<<"cannot evaluate expression type: ", "*ast." \o expr.t>>)

\* The namespace an @const directive declares into
constNamespace(directive) ==
  IF Len(directive.Parameters) > 0 /\ directive.Parameters[1].t = "StringLiteral"
    THEN directive.Parameters[1].Value
    ELSE "global"

\* The body loop of Analyzer.processConstDirective over the pairs not yet
\* visited: `range` over the Pairs map may visit them in any order, so the
\* result is the set of outcomes over all orders.  An outcome is the
\* constant table on return and the returned error.
RECURSIVE constBodyOutcomes(_, _, _, _, _)
constBodyOutcomes(constants, environ, ns, pairs, remaining) ==
  IF remaining = {} THEN {[constants |-> constants, ok |-> TRUE, err |-> <<>>]}
  ELSE UNION {
    LET key == pairs[i].Key
        ev == analyzerEvaluateExpression(constants, environ, pairs[i].Val)
    IN IF key.t # "Identifier"
         THEN constBodyOutcomes(constants, environ, ns, pairs, remaining \ {i})
       ELSE IF ~ev.ok
         THEN {[constants |-> constants, ok |-> FALSE,
                err |-> <<"error evaluating constant ", key.Value, ": ">> \o ev.err]}
       ELSE constBodyOutcomes(
              [constants EXCEPT ![ns] = MapSet(@, key.Value, ev.v)],
              environ, ns, pairs, remaining \ {i})
    : i \in remaining }

\* Analyzer.processConstDirective
processConstDirective(constants, environ, directive) ==
  LET ns == constNamespace(directive)
      c1 == IF ns \in DOMAIN constants THEN constants ELSE MapSet(constants, ns, EmptyMap)
  IN constBodyOutcomes(c1, environ, ns, directive.Body.Pairs,
                       1..Len(directive.Body.Pairs))

\* Analyzer.processDirective: the set of outcomes
processDirective(constants, environ, directive) ==
  CASE directive.Name = "const" -> processConstDirective(constants, environ, directive)
    [] directive.Name = "env" -> {[constants |-> constants, ok |-> TRUE, err |-> <<>>]}
    [] directive.Name = "brace" ->
         IF Len(directive.Parameters) # 1
           THEN {[constants |-> constants, ok |-> FALSE,
                  err |-> <<"@brace directive expects exactly one parameter">>]}
           ELSE {[constants |-> constants, ok |-> TRUE, err |-> <<>>]}
    [] OTHER -> {[constants |-> constants, ok |-> FALSE,
                  err |-> <<"unknown directive: ", directive.Name>>]}

\* A faulty resolveReference, which records no error for a name the table
\* lacks: the returned error must depend on the recorded one
resolveReferenceSilent(constants, ref) ==
  IF constDefined(constants, refNamespace(ref), ref.Name)
    THEN [n |-> [ref EXCEPT !.ResolvedValue = constants[refNamespace(ref)][ref.Name]],
          errs |-> <<>>]
    ELSE [n |-> ref, errs |-> <<>>]

\* A faulty resolveReference, which stores the name of the constant in place
\* of its value: the stored value must be the one of the table
resolveReferenceByName(constants, ref) ==
  IF constDefined(constants, refNamespace(ref), ref.Name)
    THEN [n |-> [ref EXCEPT !.ResolvedValue = StrV(ref.Name)], errs |-> <<>>]
    ELSE [n |-> ref,
          errs |-> << <<"undefined reference: ", refNamespace(ref), ".", ref.Name>> >>]

\* Analyzer.resolveReference: the node with its slot written, and the
\* errors appended
resolveReference(constants, ref) ==
  IF constDefined(constants, refNamespace(ref), ref.Name)
    THEN [n |-> [ref EXCEPT !.ResolvedValue = constants[refNamespace(ref)][ref.Name]],
          errs |-> <<>>]
    ELSE [n |-> ref,
          errs |-> << <<"undefined reference: ", refNamespace(ref), ".", ref.Name>> >>]

\* Analyzer.resolveEnvDirective
resolveEnvDirective(constants, environ, env) ==
  LET ev == evaluateEnvDirectiveExpression(constants, environ, env)
  IN IF ~ev.ok THEN [n |-> env, errs |-> <<ev.err>>]
     ELSE [n |-> [env EXCEPT !.ResolvedValue = ev.v], errs |-> <<>>]

RECURSIVE resolveReferences(_, _, _)
RECURSIVE resolveObjectValues(_, _, _, _, _)
RECURSIVE resolveArrayElements(_, _, _, _, _)

\* The ObjectLiteral case of resolveReferences: `range` visits the values
\* of the pairs not yet visited in any order.  An outcome is the pairs
\* with their values annotated and the errors appended, in visiting order.
resolveObjectValues(constants, environ, pairs, remaining, errs) ==
  IF remaining = {} THEN {[pairs |-> pairs, errs |-> errs]}
  ELSE UNION {
    UNION { resolveObjectValues(constants, environ,
                                [pairs EXCEPT ![i].Val = o.n], remaining \ {i},
                                errs \o o.errs)
            : o \in resolveReferences(constants, environ, pairs[i].Val) }
    : i \in remaining }

\* The ArrayLiteral case of resolveReferences: the elements from index i on
resolveArrayElements(constants, environ, elems, i, errs) ==
  IF i > Len(elems) THEN {[elems |-> elems, errs |-> errs]}
  ELSE UNION { resolveArrayElements(constants, environ,
                                    [elems EXCEPT ![i] = o.n], i + 1, errs \o o.errs)
               : o \in resolveReferences(constants, environ, elems[i]) }

\* Analyzer.resolveReferences on a statement or expression node: the set of
\* outcomes, each the annotated node and the errors appended to a.errors
resolveReferences(constants, environ, node) ==
  CASE node.t = "AssignmentStatement" ->
         { [n |-> [node EXCEPT !.Value = o.n], errs |-> o.errs]
           : o \in resolveReferences(constants, environ, node.Value) }
    [] node.t = "TableStatement" ->
         { [n |-> [node EXCEPT !.Body = o.n], errs |-> o.errs]
           : o \in resolveReferences(constants, environ, node.Body) }
    [] node.t = "ObjectLiteral" ->
         { [n |-> [node EXCEPT !.Pairs = o.pairs], errs |-> o.errs]
           : o \in resolveObjectValues(constants, environ, node.Pairs,
                                       1..Len(node.Pairs), <<>>) }
    [] node.t = "ArrayLiteral" ->
         { [n |-> [node EXCEPT !.Elements = o.elems], errs |-> o.errs]
           : o \in resolveArrayElements(constants, environ, node.Elements, 1, <<>>) }
    [] node.t = "Reference" -> {resolveReference(constants, node)}
    [] node.t = "EnvDirective" -> {resolveEnvDirective(constants, environ, node)}
    [] OTHER -> {[n |-> node, errs |-> <<>>]}

(***************************************************************************)
(* Transform                                                               *)
(***************************************************************************)
RECURSIVE Zeros(_)
Zeros(n) == IF n <= 0 THEN "" ELSE "0" \o Zeros(n - 1)

RECURSIVE NatDigits(_)
NatDigits(n) ==
  LET d == <<"0","1","2","3","4","5","6","7","8","9">>[(n % 10) + 1]
  IN IF n < 10 THEN <<d>> ELSE Append(NatDigits(n \div 10), d)

\* fmt's %v of a float64 (strconv 'g' format, shortest digits): plain
\* decimal notation when the decimal exponent x satisfies -4 <= x < 21,
\* exponent notation otherwise.
FloatText(f) ==
  LET neg == f.m < 0
      ds == NatDigits(IF neg THEN 0 - f.m ELSE f.m)
      n == Len(ds)
      x == n + f.e - 1
      sign == IF neg THEN "-" ELSE ""
      xs == IF x < 0 THEN "-" ELSE "+"
      xa == IF x < 0 THEN 0 - x ELSE x
      xt == IF xa < 10 THEN "0" \o NatToStr(xa) ELSE NatToStr(xa)
  IN CASE f.s = "NaN" -> "NaN"
       [] f.s = "+Inf" -> "+Inf"
       [] f.s = "-Inf" -> "-Inf"
       [] f.s = "fin" /\ f.m = 0 -> "0"
       [] f.s = "fin" /\ f.m # 0 /\ (x < -4 \/ x >= 21) ->
            sign \o ds[1] \o (IF n > 1 THEN "." \o Str(Tail(ds)) ELSE "") \o "e" \o xs \o xt
       [] f.s = "fin" /\ f.m # 0 /\ x >= -4 /\ x < 21 /\ f.e >= 0 ->
            sign \o Str(ds) \o Zeros(f.e)
       [] f.s = "fin" /\ f.m # 0 /\ x >= -4 /\ x < 21 /\ f.e < 0 /\ x >= 0 ->
            sign \o Str(SubSeq(ds, 1, x + 1)) \o "." \o Str(SubSeq(ds, x + 2, n))
       [] f.s = "fin" /\ f.m # 0 /\ x >= -4 /\ x < 0 /\ f.e < 0 ->
            sign \o "0." \o Zeros(0 - x - 1) \o Str(ds)

\* fmt.Sprintf("%v", value) for the values a template part can evaluate to
Sprintv(value) ==
  CASE value.k = "str" -> value.v
    [] value.k = "int" -> IntToStr(value.v)
    [] value.k = "bool" -> IF value.v THEN "true" ELSE "false"
    [] value.k = "float" -> FloatText(value.v)
    [] value.k = "nil" -> "<nil>"

\* The test `e.ResolvedValue != nil` by which Transform.evaluateExpression
\* decides that a Reference or EnvDirective has been resolved
slotResolved(value) == value.k # "nil"

RECURSIVE transformEvaluateExpression(_)
RECURSIVE evaluateArray(_, _, _)
RECURSIVE evaluateObject(_, _, _)
RECURSIVE evaluateTemplateString(_, _, _)

\* Transform.evaluateArray: the elements from index i on
evaluateArray(elems, i, acc) ==
  IF i > Len(elems) THEN {Ok(ArrV(acc))}
  ELSE UNION { IF ~o.ok THEN {o} ELSE evaluateArray(elems, i + 1, Append(acc, o.v))
               : o \in transformEvaluateExpression(elems[i]) }

\* Transform.evaluateObject: `range` visits the pairs not yet visited in any
\* order; a later visit overwrites an equal key string
evaluateObject(pairs, remaining, result) ==
  IF remaining = {} THEN {Ok(MapV(result))}
  ELSE UNION {
    UNION {
      IF ~ko.ok THEN {ko}
      ELSE IF ko.v.k # "str"
        THEN {Err(<<"object keys must be strings, got ", ko.v.k>>)}
      ELSE UNION { IF ~vo.ok THEN {vo}
                   ELSE evaluateObject(pairs, remaining \ {i}, MapSet(result, ko.v.v, vo.v))
                   : vo \in transformEvaluateExpression(pairs[i].Val) }
      : ko \in transformEvaluateExpression(pairs[i].Key) }
    : i \in remaining }

\* Transform.evaluateTemplateString: the parts from index i on
evaluateTemplateString(parts, i, acc) ==
  IF i > Len(parts) THEN {Ok(StrV(acc))}
  ELSE IF parts[i].IsLiteral
    THEN evaluateTemplateString(parts, i + 1, acc \o parts[i].Content)
  ELSE UNION { IF ~o.ok THEN {Err(<<"error in template interpolation: ">> \o o.err)}
               ELSE evaluateTemplateString(parts, i + 1, acc \o Sprintv(o.v))
               : o \in transformEvaluateExpression(parts[i].Expr) }

\* Transform.evaluateExpression: the set of possible results
transformEvaluateExpression(expr) ==
  CASE expr.t = "StringLiteral" -> {Ok(StrV(expr.Value))}
    [] expr.t = "NumberLiteral" -> {Ok(expr.Value)}
    [] expr.t = "BooleanLiteral" -> {Ok(BoolV(expr.Value))}
    [] expr.t = "NullLiteral" -> {Ok(Nil)}
    [] expr.t = "ArrayLiteral" -> evaluateArray(expr.Elements, 1, <<>>)
    [] expr.t = "ObjectLiteral" -> evaluateObject(expr.Pairs, 1..Len(expr.Pairs), EmptyMap)
    [] expr.t = "Reference" ->
         IF slotResolved(expr.ResolvedValue) THEN {Ok(expr.ResolvedValue)}
         ELSE {Err(<<"unresolved reference: ",
                     IF expr.Namespace # "" THEN expr.Namespace \o "." \o expr.Name
                     ELSE expr.Name>>)}
    [] expr.t = "EnvDirective" ->
         IF slotResolved(expr.ResolvedValue) THEN {Ok(expr.ResolvedValue)}
         ELSE {Err(<<"unresolved environment directive: ", "@env(\"" \o expr.VarName \o "\")">>)}
    [] expr.t = "Identifier" -> {Ok(StrV(expr.Value))}
    [] expr.t = "TemplateStringLiteral" -> evaluateTemplateString(expr.Parts, 1, "")
    [] OTHER -> {Err(<<"cannot evaluate expression type: ", expr.t>>)}

\* A result of a Transform statement handler: the output map on return, the
\* returned error, or a panic
TOut(output, ok, err, panic) == [output |-> output, ok |-> ok, err |-> err, panic |-> panic]

\* Transform.processAssignment
processAssignment(output, stmt) ==
  { IF ~o.ok THEN TOut(output, FALSE, o.err, FALSE)
    ELSE TOut(MapSet(output, stmt.Name.Value, o.v), TRUE, <<>>, FALSE)
    : o \in transformEvaluateExpression(stmt.Value) }

\* A faulty intermediate-segment branch, which makes a new map at every
\* segment: the merged tree must depend on the test for nil
alwaysNewMap(current, segment) == TRUE

\* The intermediate-segment branch of Transform.processTable: the map to
\* descend into is created only where the entry is absent or nil
needsNewMap(current, segment) == MapGet(current, segment).k = "nil"

\* Transform.processTable from path index i, inside the map `current`.  The
\* result is the updated `current`, or an error, or a panic where the
\* entry at an intermediate segment is not a map (unchecked type assertion).
RECURSIVE tableWalk(_, _, _, _)
tableWalk(current, path, i, body) ==
  IF i = Len(path)
    THEN { IF ~o.ok THEN TOut(current, FALSE, o.err, FALSE)
           ELSE TOut(MapSet(current, path[i], o.v), TRUE, <<>>, FALSE)
           : o \in transformEvaluateExpression(body) }
    ELSE LET c1 == IF needsNewMap(current, path[i])
                     THEN MapSet(current, path[i], MapV(EmptyMap))
                     ELSE current
         IN IF c1[path[i]].k # "map"
              THEN {TOut(c1, FALSE, <<>>, TRUE)}
              ELSE { TOut(MapSet(c1, path[i], MapV(o.output)), o.ok, o.err, o.panic)
                     : o \in tableWalk(c1[path[i]].v, path, i + 1, body) }

\* Transform.processTable
processTable(output, stmt) == tableWalk(output, stmt.Path, 1, stmt.Body)

\* Transform.processStatement
processStatement(output, stmt) ==
  CASE stmt.t = "AssignmentStatement" -> processAssignment(output, stmt)
    [] stmt.t = "TableStatement" -> processTable(output, stmt)
    [] stmt.t = "DirectiveStatement" -> {TOut(output, TRUE, <<>>, FALSE)}
    [] OTHER -> {TOut(output, FALSE, <<"unknown statement type: ", stmt.t>>, FALSE)}

(***************************************************************************)
(* Documents.  A source text is the sequence of its bytes.                 *)
(***************************************************************************)
\* the example of RFC section 9:  @brace "0.0.1"\n@const { VERSION = "1.0.0" }\napp_version = :VERSION\n#database {\n    host = "localhost"\n    port = 5432\n}\n
DocExample ==
  <<"@","b","r","a","c","e"," ","\"","0",".","0",".","1","\"","\n","@","c","o",
    "n","s","t"," ","{"," ","V","E","R","S","I","O","N"," ","="," ","\"","1",
    ".","0",".","0","\""," ","}","\n","a","p","p","_","v","e","r","s","i","o",
    "n"," ","="," ",":","V","E","R","S","I","O","N","\n","#","d","a","t","a",
    "b","a","s","e"," ","{","\n"," "," "," "," ","h","o","s","t"," ","="," ",
    "\"","l","o","c","a","l","h","o","s","t","\"","\n"," "," "," "," ","p","o",
    "r","t"," ","="," ","5","4","3","2","\n","}","\n">>

\* the source of TestBasicCompilation:  \n@brace "0.0.1"\n\n@const {\n    VERSION = "1.0.0"\n}\n\napp_version = :VERSION\nname = "test app"\nport = 8080\nenabled = true\n\n#database {\n    host = "localhost"\n    port = 5432\n}\n
DocBasicCompilation ==
  <<"\n","@","b","r","a","c","e"," ","\"","0",".","0",".","1","\"","\n","\n","@",
    "c","o","n","s","t"," ","{","\n"," "," "," "," ","V","E","R","S","I","O",
    "N"," ","="," ","\"","1",".","0",".","0","\"","\n","}","\n","\n","a","p","p",
    "_","v","e","r","s","i","o","n"," ","="," ",":","V","E","R","S","I","O",
    "N","\n","n","a","m","e"," ","="," ","\"","t","e","s","t"," ","a","p","p",
    "\"","\n","p","o","r","t"," ","="," ","8","0","8","0","\n","e","n","a","b",
    "l","e","d"," ","="," ","t","r","u","e","\n","\n","#","d","a","t","a","b",
    "a","s","e"," ","{","\n"," "," "," "," ","h","o","s","t"," ","="," ","\"",
    "l","o","c","a","l","h","o","s","t","\"","\n"," "," "," "," ","p","o","r",
    "t"," ","="," ","5","4","3","2","\n","}","\n">>

\* the source of TestEnvDirective, over the variables X and Y:  @brace "0.0.1"\n@const "env" {\n    TEST_VALUE = @env("X")\n    DEFAULT_VALUE = @env("Y", "default")\n}\ntest_value = :env.TEST_VALUE\ndefault_value = :env.DEFAULT_VALUE\n
DocEnvDirective ==
  <<"@","b","r","a","c","e"," ","\"","0",".","0",".","1","\"","\n","@","c","o",
    "n","s","t"," ","\"","e","n","v","\""," ","{","\n"," "," "," "," ","T","E",
    "S","T","_","V","A","L","U","E"," ","="," ","@","e","n","v","(","\"","X",
    "\"",")","\n"," "," "," "," ","D","E","F","A","U","L","T","_","V","A","L",
    "U","E"," ","="," ","@","e","n","v","(","\"","Y","\"",","," ","\"","d","e",
    "f","a","u","l","t","\"",")","\n","}","\n","t","e","s","t","_","v","a","l",
    "u","e"," ","="," ",":","e","n","v",".","T","E","S","T","_","V","A","L",
    "U","E","\n","d","e","f","a","u","l","t","_","v","a","l","u","e"," ","=",
    " ",":","e","n","v",".","D","E","F","A","U","L","T","_","V","A","L","U",
    "E","\n">>

\* the apiVersion template of example.brace, with a short value:  @brace "0.0.1"\n@const "rbac" { Namespace = "r" }\napiVersion = (backquote)${:rbac.Namespace}/v1(backquote)\n
DocTemplate ==
  <<"@","b","r","a","c","e"," ","\"","0",".","0",".","1","\"","\n","@","c","o",
    "n","s","t"," ","\"","r","b","a","c","\""," ","{"," ","N","a","m","e","s",
    "p","a","c","e"," ","="," ","\"","r","\""," ","}","\n","a","p","i","V","e",
    "r","s","i","o","n"," ","="," ",BT,"$","{",":","r","b","a","c",".","N",
    "a","m","e","s","p","a","c","e","}","/","v","1",BT,"\n">>

\* TestBraceDirectiveValidation: valid brace directive, with a line break where the raw string has a backslash and n:  @brace "1.0.0"\nname = "test"
DocValid ==
  <<"@","b","r","a","c","e"," ","\"","1",".","0",".","0","\"","\n","n","a","m",
    "e"," ","="," ","\"","t","e","s","t","\"">>

\* TestBraceDirectiveValidation: comments before brace directive allowed, with a line break where the raw string has a backslash and n:  // This is a comment\n@brace "1.0.0"\nname = "test"
DocCommentFirst ==
  <<"/","/"," ","T","h","i","s"," ","i","s"," ","a"," ","c","o","m","m","e",
    "n","t","\n","@","b","r","a","c","e"," ","\"","1",".","0",".","0","\"","\n",
    "n","a","m","e"," ","="," ","\"","t","e","s","t","\"">>

\* TestBraceDirectiveValidation: empty file:  
DocEmpty ==
  <<>>

\* a file that holds only a comment:  // c
DocOnlyComment ==
  <<"/","/"," ","c">>

\* TestBraceDirectiveValidation: missing brace directive:  name = "test"
DocNoBrace ==
  <<"n","a","m","e"," ","="," ","\"","t","e","s","t","\"">>

\* a table statement first:  #t { a = 1 }
DocTableFirst ==
  <<"#","t"," ","{"," ","a"," ","="," ","1"," ","}">>

\* TestBraceDirectiveValidation: wrong first directive:  @const { NAME = "test" }
DocConstFirst ==
  <<"@","c","o","n","s","t"," ","{"," ","N","A","M","E"," ","="," ","\"","t",
    "e","s","t","\""," ","}">>

\* an @env directive first:  @env("X")
DocEnvFirst ==
  <<"@","e","n","v","(","\"","X","\"",")">>

\* TestBraceDirectiveValidation: brace directive without version, with a line break where the raw string has a backslash and n:  @brace\nname = "test"
DocBraceNoVersion ==
  <<"@","b","r","a","c","e","\n","n","a","m","e"," ","="," ","\"","t","e","s",
    "t","\"">>

\* TestBraceDirectiveValidation: brace directive with non-string version, with a line break where the raw string has a backslash and n:  @brace 1.0\nname = "test"
DocBraceNumberVersion ==
  <<"@","b","r","a","c","e"," ","1",".","0","\n","n","a","m","e"," ","="," ",
    "\"","t","e","s","t","\"">>

\* @brace followed by two string literals:  @brace "1" "2"\nname = "test"
DocBraceTwoParams ==
  <<"@","b","r","a","c","e"," ","\"","1","\""," ","\"","2","\"","\n","n","a","m",
    "e"," ","="," ","\"","t","e","s","t","\"">>

\* an @env directive in object-key position:  @brace "1"\nk = { @env("X", "d") = 1 }
DocEnvKey ==
  <<"@","b","r","a","c","e"," ","\"","1","\"","\n","k"," ","="," ","{"," ","@",
    "e","n","v","(","\"","X","\"",","," ","\"","d","\"",")"," ","="," ","1"," ",
    "}">>

\* an @env whose default is null (the lexer drops the byte that follows a keyword, hence the space):  @brace "1"\nn = @env("X", null )
DocEnvNullDefault ==
  <<"@","b","r","a","c","e"," ","\"","1","\"","\n","n"," ","="," ","@","e","n",
    "v","(","\"","X","\"",","," ","n","u","l","l"," ",")">>

\* one @env per kind of environment text:  @brace "1"\nb = @env("B")\nn = @env("N")\nf = @env("F")\ns = @env("S")\ni = @env("X")\nt = @env("T")\ne = @env("E")\nz = @env("Z")
DocEnvTyped ==
  <<"@","b","r","a","c","e"," ","\"","1","\"","\n","b"," ","="," ","@","e","n",
    "v","(","\"","B","\"",")","\n","n"," ","="," ","@","e","n","v","(","\"","N",
    "\"",")","\n","f"," ","="," ","@","e","n","v","(","\"","F","\"",")","\n","s",
    " ","="," ","@","e","n","v","(","\"","S","\"",")","\n","i"," ","="," ","@",
    "e","n","v","(","\"","X","\"",")","\n","t"," ","="," ","@","e","n","v","(",
    "\"","T","\"",")","\n","e"," ","="," ","@","e","n","v","(","\"","E","\"",")",
    "\n","z"," ","="," ","@","e","n","v","(","\"","Z","\"",")">>

\* the two table statements of the merging rule:  @brace "1"\n#a.b { x = 1 }\n#a.c { y = 2 }
DocTablesMerge ==
  <<"@","b","r","a","c","e"," ","\"","1","\"","\n","#","a",".","b"," ","{"," ",
    "x"," ","="," ","1"," ","}","\n","#","a",".","c"," ","{"," ","y"," ","=",
    " ","2"," ","}">>

\* the same two table statements in the other order:  @brace "1"\n#a.c { y = 2 }\n#a.b { x = 1 }
DocTablesMergeRev ==
  <<"@","b","r","a","c","e"," ","\"","1","\"","\n","#","a",".","c"," ","{"," ",
    "y"," ","="," ","2"," ","}","\n","#","a",".","b"," ","{"," ","x"," ","=",
    " ","1"," ","}">>

\* an object-valued assignment, then a table statement through its name:  @brace "1"\na = { z = 1 }\n#a.b { x = 1 }
DocObjectThenTable ==
  <<"@","b","r","a","c","e"," ","\"","1","\"","\n","a"," ","="," ","{"," ","z",
    " ","="," ","1"," ","}","\n","#","a",".","b"," ","{"," ","x"," ","="," ",
    "1"," ","}">>

\* table statements that share two segments, then one:  @brace "1"\n#a.b.c { x = 1 }\n#a.b.d { y = 2 }\n#a.e { w = 3 }
DocTableDeep ==
  <<"@","b","r","a","c","e"," ","\"","1","\"","\n","#","a",".","b",".","c"," ",
    "{"," ","x"," ","="," ","1"," ","}","\n","#","a",".","b",".","d"," ","{",
    " ","y"," ","="," ","2"," ","}","\n","#","a",".","e"," ","{"," ","w"," ",
    "="," ","3"," ","}">>

\* an @const body whose two pairs both fail: an undefined reference and an unset variable without default:  @brace "1"\n@const { P = :U, Q = @env("M") }
DocConstTwoFailing ==
  <<"@","b","r","a","c","e"," ","\"","1","\"","\n","@","c","o","n","s","t"," ",
    "{"," ","P"," ","="," ",":","U",","," ","Q"," ","="," ","@","e","n","v",
    "(","\"","M","\"",")"," ","}">>

\* the same constant declared in two @const directives:  @brace "1"\n@const { K = 1 }\n@const { K = 2 }\nv = :K
DocConstTwice ==
  <<"@","b","r","a","c","e"," ","\"","1","\"","\n","@","c","o","n","s","t"," ",
    "{"," ","K"," ","="," ","1"," ","}","\n","@","c","o","n","s","t"," ","{",
    " ","K"," ","="," ","2"," ","}","\n","v"," ","="," ",":","K">>

\* the same constant declared twice in one @const body:  @brace "1"\n@const { K = 1, K = 2 }\nv = :K
DocConstTwiceInBody ==
  <<"@","b","r","a","c","e"," ","\"","1","\"","\n","@","c","o","n","s","t"," ",
    "{"," ","K"," ","="," ","1",","," ","K"," ","="," ","2"," ","}","\n","v",
    " ","="," ",":","K">>

\* one constant referenced three times:  @brace "1"\n@const { A = "x" }\na = :A\nb = [:A, :A]
DocRefTwice ==
  <<"@","b","r","a","c","e"," ","\"","1","\"","\n","@","c","o","n","s","t"," ",
    "{"," ","A"," ","="," ","\"","x","\""," ","}","\n","a"," ","="," ",":","A",
    "\n","b"," ","="," ","[",":","A",","," ",":","A","]">>

\* constants with an array and an object literal as value, and a reference to each:  @brace "1"\n@const { L = [1, 2] }\n@const { O = { k = 1 } }\nl = :L\no = :O
DocConstStructured ==
  <<"@","b","r","a","c","e"," ","\"","1","\"","\n","@","c","o","n","s","t"," ",
    "{"," ","L"," ","="," ","[","1",","," ","2","]"," ","}","\n","@","c","o",
    "n","s","t"," ","{"," ","O"," ","="," ","{"," ","k"," ","="," ","1"," ",
    "}"," ","}","\n","l"," ","="," ",":","L","\n","o"," ","="," ",":","O">>

\* an object literal with a number key:  @brace "1"\no = { 1 = 2 }
DocNumberKey ==
  <<"@","b","r","a","c","e"," ","\"","1","\"","\n","o"," ","="," ","{"," ","1",
    " ","="," ","2"," ","}">>

\* a table body with a boolean key (the lexer drops the byte that follows a keyword, hence the two spaces):  @brace "1"\n#t { true  = 2 }
DocTableBoolKey ==
  <<"@","b","r","a","c","e"," ","\"","1","\"","\n","#","t"," ","{"," ","t","r",
    "u","e"," "," ","="," ","2"," ","}">>

\* an @const body with a number key:  @brace "1"\n@const { 1 = 2 }\nv = 3
DocConstNumberKey ==
  <<"@","b","r","a","c","e"," ","\"","1","\"","\n","@","c","o","n","s","t"," ",
    "{"," ","1"," ","="," ","2"," ","}","\n","v"," ","="," ","3">>

\* keys that are not in alphabetical order, at the root and in an object literal:  @brace "1"\nb = 1\na = { d = 1, c = 2 }
DocKeysBA ==
  <<"@","b","r","a","c","e"," ","\"","1","\"","\n","b"," ","="," ","1","\n","a",
    " ","="," ","{"," ","d"," ","="," ","1",","," ","c"," ","="," ","2"," ",
    "}">>

\* the empty object literal:  @brace "1"\no = {}
DocObjEmpty ==
  <<"@","b","r","a","c","e"," ","\"","1","\"","\n","o"," ","="," ","{","}">>

\* an object literal with a comment before a pair, a comma, no separator, a comment after a pair and a trailing comma:  @brace "1"\no = { /* c */ a = 1, b = 2 c = 3 /* d */ e = 4, }
DocObjLayouts ==
  <<"@","b","r","a","c","e"," ","\"","1","\"","\n","o"," ","="," ","{"," ","/",
    "*"," ","c"," ","*","/"," ","a"," ","="," ","1",","," ","b"," ","="," ",
    "2"," ","c"," ","="," ","3"," ","/","*"," ","d"," ","*","/"," ","e"," ",
    "="," ","4",","," ","}">>

\* an object literal that holds only a comment:  @brace "1"\no = { /* c */ }
DocObjOnlyComment ==
  <<"@","b","r","a","c","e"," ","\"","1","\"","\n","o"," ","="," ","{"," ","/",
    "*"," ","c"," ","*","/"," ","}">>

\* an object literal with a comment after its trailing comma:  @brace "1"\no = { a = 1, /* c */ }
DocObjCommentAfterComma ==
  <<"@","b","r","a","c","e"," ","\"","1","\"","\n","o"," ","="," ","{"," ","a",
    " ","="," ","1",","," ","/","*"," ","c"," ","*","/"," ","}">>

\* an assignment without its `=`, then two assignments:  @brace "1"\ny z = 1\nw = 2
DocBadPeek ==
  <<"@","b","r","a","c","e"," ","\"","1","\"","\n","y"," ","z"," ","="," ","1",
    "\n","w"," ","="," ","2">>

\* a table statement whose body fails, then an assignment:  @brace "1"\n#t { k = ] }\na = 1
DocBadInTable ==
  <<"@","b","r","a","c","e"," ","\"","1","\"","\n","#","t"," ","{"," ","k"," ",
    "="," ","]"," ","}","\n","a"," ","="," ","1">>

\* a token that starts no statement, then an assignment and a table statement:  @brace "1"\n] a = 1\n#t { k = 2 }
DocBadToken ==
  <<"@","b","r","a","c","e"," ","\"","1","\"","\n","]"," ","a"," ","="," ","1",
    "\n","#","t"," ","{"," ","k"," ","="," ","2"," ","}">>

\* a NUL byte between the version directive and an assignment:  @brace "1"\n(NUL)a = 1
DocNul ==
  <<"@","b","r","a","c","e"," ","\"","1","\"","\n",NUL,"a"," ","="," ","1">>

\* a block comment with the next statement right after it:  @brace "1"\n/* c */x = 1
DocCommentTight ==
  <<"@","b","r","a","c","e"," ","\"","1","\"","\n","/","*"," ","c"," ","*","/",
    "x"," ","="," ","1">>

\* a block comment, a space and the next statement:  @brace "1"\n/* c */ x = 1
DocCommentSpaced ==
  <<"@","b","r","a","c","e"," ","\"","1","\"","\n","/","*"," ","c"," ","*","/",
    " ","x"," ","="," ","1">>

\* templates with several interpolations, an empty one and none:  @brace "1"\nt = (backquote)a${:A}b${x}${ 1 }c(backquote)\ne = (backquote)${}(backquote)\nl = (backquote)plain(backquote)
DocTemplateMany ==
  <<"@","b","r","a","c","e"," ","\"","1","\"","\n","t"," ","="," ",BT,"a","$",
    "{",":","A","}","b","$","{","x","}","$","{"," ","1"," ","}","c",BT,"\n",
    "e"," ","="," ",BT,"$","{","}",BT,"\n","l"," ","="," ",BT,"p","l","a",
    "i","n",BT>>

\* a template whose last interpolation is not closed:  @brace "1"\nu = (backquote)a${:A}b${c(backquote)
DocTemplateUnclosed ==
  <<"@","b","r","a","c","e"," ","\"","1","\"","\n","u"," ","="," ",BT,"a","$",
    "{",":","A","}","b","$","{","c",BT>>

\* an assignment of a scalar, then a table statement through its name:  @brace "1"\na = 1\n#a.b { x = 1 }
DocScalarThenTable ==
  <<"@","b","r","a","c","e"," ","\"","1","\"","\n","a"," ","="," ","1","\n","#",
    "a",".","b"," ","{"," ","x"," ","="," ","1"," ","}">>

\* an assignment of an array, then a table statement through its name:  @brace "1"\na = [1]\n#a.b { x = 1 }
DocArrayThenTable ==
  <<"@","b","r","a","c","e"," ","\"","1","\"","\n","a"," ","="," ","[","1","]",
    "\n","#","a",".","b"," ","{"," ","x"," ","="," ","1"," ","}">>

\* an object literal with a repeated key:  @brace "1"\no = { k = 1, k = 2 }
DocObjRepeatedKey ==
  <<"@","b","r","a","c","e"," ","\"","1","\"","\n","o"," ","="," ","{"," ","k",
    " ","="," ","1",","," ","k"," ","="," ","2"," ","}">>

\* a template whose interpolation holds one double quote, then an assignment:  @brace "1"\nq = (backquote)${"}(backquote)\na = 1
DocTemplateQuote ==
  <<"@","b","r","a","c","e"," ","\"","1","\"","\n","q"," ","="," ",BT,"$","{",
    "\"","}",BT,"\n","a"," ","="," ","1">>

\* integers spelled with a leading zero beside the same digits without it:  @brace "1"\nn = 010\nk = 10\nz = 0\nw = -07
DocLeadingZero ==
  <<"@","b","r","a","c","e"," ","\"","1","\"","\n","n"," ","="," ","0","1","0",
    "\n","k"," ","="," ","1","0","\n","z"," ","="," ","0","\n","w"," ","="," ",
    "-","0","7">>

\* an integer spelled 08:  @brace "1"\nm = 08\na = 1
DocZeroEight ==
  <<"@","b","r","a","c","e"," ","\"","1","\"","\n","m"," ","="," ","0","8","\n",
    "a"," ","="," ","1">>

\* The statements the generated documents are put together from
\* @const { A = "x" }
StmtConstA ==
  <<"@","c","o","n","s","t"," ","{"," ","A"," ","="," ","\"","x","\""," ","}">>

\* @const { B = :A }
StmtConstB ==
  <<"@","c","o","n","s","t"," ","{"," ","B"," ","="," ",":","A"," ","}">>

\* @const { C = 1, D = :C }
StmtConstCD ==
  <<"@","c","o","n","s","t"," ","{"," ","C"," ","="," ","1",","," ","D"," ",
    "="," ",":","C"," ","}">>

\* @const { F = :E E = 2 }
StmtConstFE ==
  <<"@","c","o","n","s","t"," ","{"," ","F"," ","="," ",":","E"," ","E"," ",
    "="," ","2"," ","}">>

\* @const "ns" { N = null }
StmtConstNs ==
  <<"@","c","o","n","s","t"," ","\"","n","s","\""," ","{"," ","N"," ","="," ",
    "n","u","l","l"," ","}">>

\* a = :A
StmtRefA ==
  <<"a"," ","="," ",":","A">>

\* b = :ns.N
StmtRefNs ==
  <<"b"," ","="," ",":","n","s",".","N">>

\* t = (backquote)${:A}/v1(backquote)
StmtTemplate ==
  <<"t"," ","="," ",BT,"$","{",":","A","}","/","v","1",BT>>

\* e = @env("X")
StmtEnv ==
  <<"e"," ","="," ","@","e","n","v","(","\"","X","\"",")">>

\* f = @env("X", "d")
StmtEnvDefault ==
  <<"f"," ","="," ","@","e","n","v","(","\"","X","\"",","," ","\"","d","\"",")">>

\* g = @env("Y", @env("X"))
StmtEnvNested ==
  <<"g"," ","="," ","@","e","n","v","(","\"","Y","\"",","," ","@","e","n","v",
    "(","\"","X","\"",")",")">>

\* #t { k = :A }
StmtTable ==
  <<"#","t"," ","{"," ","k"," ","="," ",":","A"," ","}">>

\* h = { :A = 1 }
StmtKeyRef ==
  <<"h"," ","="," ","{"," ",":","A"," ","="," ","1"," ","}">>

\* y = ]
StmtBad ==
  <<"y"," ","="," ","]">>

\* The fixed documents
Fixtures ==
  {DocExample, DocBasicCompilation, DocEnvDirective, DocTemplate, DocValid,
   DocCommentFirst, DocEmpty, DocOnlyComment, DocNoBrace, DocTableFirst,
   DocConstFirst, DocEnvFirst, DocBraceNoVersion, DocBraceNumberVersion,
   DocBraceTwoParams, DocEnvKey, DocEnvNullDefault, DocEnvTyped, DocTablesMerge,
   DocTablesMergeRev, DocObjectThenTable, DocTableDeep, DocConstTwoFailing,
   DocConstTwice, DocConstTwiceInBody, DocRefTwice,
   DocConstStructured, DocNumberKey, DocTableBoolKey, DocConstNumberKey,
   DocKeysBA, DocObjEmpty, DocObjLayouts, DocObjOnlyComment, DocObjCommentAfterComma,
   DocBadPeek, DocBadInTable, DocBadToken, DocNul,
   DocCommentTight, DocCommentSpaced, DocTemplateMany, DocTemplateUnclosed,
   DocScalarThenTable, DocArrayThenTable, DocObjRepeatedKey, DocTemplateQuote,
   DocLeadingZero, DocZeroEight}

Stmts ==
  <<StmtConstA, StmtConstB, StmtConstCD, StmtConstFE, StmtConstNs, StmtRefA,
    StmtRefNs, StmtTemplate, StmtEnv, StmtEnvDefault, StmtEnvNested, StmtTable,
    StmtKeyRef, StmtBad>>

\* The largest number of statements that follow the version directive in a
\* generated document
MaxStmts == 2

\* The leading version directive of the generated documents
VersionLine == <<"@","b","r","a","c","e"," ","\"","1","\"">>

\* The document made of the version directive and the given statements, one
\* per line
RECURSIVE Document(_)
Document(picks) ==
  IF picks = <<>> THEN VersionLine
  ELSE Document(SubSeq(picks, 1, Len(picks) - 1)) \o <<"\n">> \o Stmts[picks[Len(picks)]]

Generated ==
  { Document(picks) : picks \in UNION { [1..n -> 1..Len(Stmts)] : n \in 0..MaxStmts } }

Sources == Fixtures \cup Generated

\* The process environments: a table from variable name to value
EnvUnset == [x \in {} |-> <<>>]
EnvX42 == [x \in {"X"} |-> <<"4","2">>]
EnvEmptyXSetY == [x \in {"X", "Y"} |-> IF x = "X" THEN <<>> ELSE <<"s">>]
\* One variable per kind of text: the two boolean words, a float, a text that
\* is no number, a signed integer, a capitalised word, an exponent form and
\* an integer with a leading zero
EnvTyped ==
  [x \in {"B", "N", "F", "S", "X", "T", "E", "Z"} |->
     CASE x = "B" -> <<"t","r","u","e">>
       [] x = "N" -> <<"f","a","l","s","e">>
       [] x = "F" -> <<"3",".","1","4">>
       [] x = "S" -> <<"a","b","c">>
       [] x = "X" -> <<"-","7">>
       [] x = "T" -> <<"T","r","u","e">>
       [] x = "E" -> <<"1","e","3">>
       [] x = "Z" -> <<"0","4","2">>]
Environs == {EnvUnset, EnvX42, EnvEmptyXSetY, EnvTyped}

\* transform.OutputFormat: the two formats and a value that is neither
FormatJSON == "json"
FormatYAML == "yaml"
Formats == {FormatJSON, FormatYAML, "toml"}

(***************************************************************************)
(* Compiler.Compile as a state machine.  One behaviour is one call of       *)
(* compileWithFilename on the source src under the environment environ by  *)
(* a Compiler whose format is outputFormat.                                *)
(***************************************************************************)
VARIABLES
  src,           \* the source text handed to Compile
  environ,       \* the process environment
  outputFormat,  \* Compiler.outputFormat
  pc,            \* position of the call
  p,             \* the parser (with its lexer)
  program,       \* Program.Statements
  idx,           \* position of the running loop in Program.Statements
  constants,     \* Analyzer.constants
  aerrors,       \* Analyzer.errors
  output,        \* Transform.output
  result,        \* what the call returned
  stages,        \* history: the stage functions called so far, in order
  configured,    \* the format the Compiler was constructed with
  calls          \* the CompileToFormat calls in flight on the Compiler

vars == <<src, environ, outputFormat, pc, p, program, idx, constants, aerrors,
          output, result, stages, configured, calls>>

\* The parser before parser.New has run
NoParser == [l |-> [toks |-> <<>>, n |-> 0], curToken |-> Token("ILLEGAL", <<>>),
             peekToken |-> Token("ILLEGAL", <<>>), errors |-> <<>>, panic |-> FALSE]

\* The output string: the serialisation of a value tree in a format.  The
\* empty string is NoOutput.
Emitted(format, tree) == [format |-> format, tree |-> tree]
NoOutput == Emitted("", Nil)

\* The (string, error) pair a call returns; returned is FALSE while the call
\* is running
NoResult == [returned |-> FALSE, output |-> NoOutput, err |-> <<>>]
Return(out, err) == [returned |-> TRUE, output |-> out, err |-> err]

\* No CompileToFormat call is in flight
NoCalls == <<>>

Init ==
  /\ src \in Sources
  /\ environ \in Environs
  /\ outputFormat \in Formats
  /\ pc = "start"
  /\ p = NoParser
  /\ program = <<>>
  /\ idx = 0
  /\ constants = EmptyMap
  /\ aerrors = <<>>
  /\ output = EmptyMap
  /\ result = NoResult
  /\ stages = <<>>
  /\ configured = outputFormat
  /\ calls = NoCalls

\* ErrorReporter.ReportMultipleErrors, without the source-line decoration of
\* ReportError: the messages in order and the count line
RECURSIVE reportEach(_, _)
reportEach(errors, i) ==
  IF i > Len(errors) THEN <<>>
  ELSE <<"error: ", errors[i].Message, "\n">> \o reportEach(errors, i + 1)

ReportMultipleErrors(errors) ==
  reportEach(errors, 1)
    \o (IF Len(errors) > 1 THEN <<"\nFound ", NatToStr(Len(errors)), " errors\n">> ELSE <<>>)

\* A faulty test of Parser.Errors(), which lets every parse through: the
\* stage order must depend on the test
parseNeverFailed(parser) == FALSE

\* The test `len(errors) > 0` on Parser.Errors() in compileWithFilename
parseFailed(parser) == Len(parser.errors) > 0

\* compileWithFilename: lexer.New and parser.New
NewParserStep ==
  /\ pc = "start"
  /\ p' = NewParser(NewLexer(src))
  /\ pc' = "parseHead"
  /\ UNCHANGED <<src, environ, outputFormat, program, idx, constants, aerrors,
                 output, result, stages>>
  /\ UNCHANGED <<calls, configured>>

\* Parser.ParseProgram up to its statement loop
ParseHead ==
  /\ pc = "parseHead"
  /\ LET h == parseProgramHead(p)
     IN /\ p' = h.p
        /\ program' = h.Statements
        /\ pc' = CASE h.status = "panic" -> "panic"
                   [] h.status = "return" -> "parsed"
                   [] h.status = "loop" -> "parseLoop"
  /\ stages' = Append(stages, "ParseProgram")
  /\ UNCHANGED <<src, environ, outputFormat, idx, constants, aerrors, output, result>>
  /\ UNCHANGED <<calls, configured>>

\* One iteration of the statement loop of Parser.ParseProgram
ParseLoop ==
  /\ pc = "parseLoop"
  /\ p.curToken.Type # "EOF"
  /\ LET r == parseProgramStep(p, program)
     IN /\ p' = r.p
        /\ program' = r.Statements
        /\ pc' = IF r.p.panic THEN "panic" ELSE "parseLoop"
  /\ UNCHANGED <<src, environ, outputFormat, idx, constants, aerrors, output,
                 result, stages>>
  /\ UNCHANGED <<calls, configured>>

\* The statement loop of Parser.ParseProgram ends and ParseProgram returns
ParseEnd ==
  /\ pc = "parseLoop"
  /\ p.curToken.Type = "EOF"
  /\ pc' = "parsed"
  /\ UNCHANGED <<src, environ, outputFormat, p, program, idx, constants, aerrors,
                 output, result, stages>>
  /\ UNCHANGED <<calls, configured>>

\* compileWithFilename: the check of Parser.Errors(), then analyzer.New and
\* the call of Analyze
CheckParse ==
  /\ pc = "parsed"
  /\ IF parseFailed(p)
       THEN /\ result' = Return(NoOutput,
                                <<"parsing errors:\n">> \o ReportMultipleErrors(p.errors))
            /\ pc' = "done"
            /\ UNCHANGED <<idx, constants, aerrors, stages>>
       ELSE /\ constants' = EmptyMap
            /\ aerrors' = <<>>
            /\ idx' = 1
            /\ pc' = "pass1"
            /\ stages' = Append(stages, "Analyze")
            /\ UNCHANGED result
  /\ UNCHANGED <<src, environ, outputFormat, p, program, output>>
  /\ UNCHANGED <<calls, configured>>

\* One iteration of the first loop of Analyzer.Analyze.  A nil
\* *DirectiveStatement in the list passes the type assertion and is
\* dereferenced by processDirective.
DirectivePass ==
  /\ pc = "pass1"
  /\ idx <= Len(program)
  /\ LET stmt == program[idx]
     IN IF IsNilPtr(stmt) /\ stmt.of = "DirectiveStatement"
          THEN /\ pc' = "panic"
               /\ UNCHANGED <<idx, constants, aerrors>>
        ELSE IF stmt.t = "DirectiveStatement"
          THEN \E o \in processDirective(constants, environ, stmt) :
                 /\ constants' = o.constants
                 /\ aerrors' = IF o.ok THEN aerrors ELSE Append(aerrors, o.err)
                 /\ idx' = idx + 1
                 /\ pc' = "pass1"
        ELSE /\ idx' = idx + 1
             /\ UNCHANGED <<pc, constants, aerrors>>
  /\ UNCHANGED <<src, environ, outputFormat, p, program, output, result, stages>>
  /\ UNCHANGED <<calls, configured>>

\* The first loop of Analyzer.Analyze ends
DirectivePassEnd ==
  /\ pc = "pass1"
  /\ idx > Len(program)
  /\ pc' = "pass2"
  /\ idx' = 1
  /\ UNCHANGED <<src, environ, outputFormat, p, program, constants, aerrors,
                 output, result, stages>>
  /\ UNCHANGED <<calls, configured>>

\* One iteration of the second loop of Analyzer.Analyze
ResolvePass ==
  /\ pc = "pass2"
  /\ idx <= Len(program)
  /\ \E o \in resolveReferences(constants, environ, program[idx]) :
       /\ program' = [program EXCEPT ![idx] = o.n]
       /\ aerrors' = aerrors \o o.errs
  /\ idx' = idx + 1
  /\ UNCHANGED <<src, environ, outputFormat, pc, p, constants, output, result, stages>>
  /\ UNCHANGED <<calls, configured>>

\* The Go text of a list of strings under %v
RECURSIVE joinErrors(_, _)
joinErrors(errs, i) ==
  IF i > Len(errs) THEN <<>>
  ELSE (IF i > 1 THEN <<" ">> ELSE <<>>) \o errs[i] \o joinErrors(errs, i + 1)

\* Analyzer.Analyze returns; compileWithFilename checks the error and
\* constructs the Transform
AnalyzeReturn ==
  /\ pc = "pass2"
  /\ idx > Len(program)
  /\ IF Len(aerrors) > 0
       THEN /\ result' = Return(NoOutput,
                                <<"analysis error: ", "analysis errors: ", "[">>
                                  \o joinErrors(aerrors, 1) \o <<"]">>)
            /\ pc' = "done"
            /\ UNCHANGED <<idx, output, stages>>
       ELSE /\ output' = EmptyMap
            /\ idx' = 1
            /\ pc' = "transform"
            /\ stages' = Append(stages, "Transform")
            /\ UNCHANGED result
  /\ UNCHANGED <<src, environ, outputFormat, p, program, constants, aerrors>>
  /\ UNCHANGED <<calls, configured>>

\* One iteration of the statement loop of Transform.Transform
TransformStep ==
  /\ pc = "transform"
  /\ idx <= Len(program)
  /\ \E o \in processStatement(output, program[idx]) :
       /\ output' = o.output
       /\ IF o.panic
            THEN pc' = "panic" /\ UNCHANGED <<idx, result>>
          ELSE IF ~o.ok
            THEN /\ result' = Return(NoOutput, <<"generation error: ">> \o o.err)
                 /\ pc' = "done"
                 /\ UNCHANGED idx
          ELSE /\ idx' = idx + 1
               /\ UNCHANGED <<pc, result>>
  /\ UNCHANGED <<src, environ, outputFormat, p, program, constants, aerrors, stages>>
  /\ UNCHANGED <<calls, configured>>

\* Whether encoding/json can marshal the value: it rejects NaN and the
\* infinities
RECURSIVE jsonSupported(_)
jsonSupported(value) ==
  CASE value.k = "float" -> value.v.s = "fin"
    [] value.k = "arr" -> \A i \in 1..Len(value.v) : jsonSupported(value.v[i])
    [] value.k = "map" -> \A key \in DOMAIN value.v : jsonSupported(value.v[key])
    [] OTHER -> TRUE

\* Transform.toJSON
toJSON(out) ==
  IF jsonSupported(MapV(out))
    THEN Return(Emitted(FormatJSON, MapV(out)), <<>>)
    ELSE Return(NoOutput, <<"generation error: ", "error marshaling to JSON: ",
                            "json: unsupported value">>)

\* Transform.toYAML
toYAML(out) == Return(Emitted(FormatYAML, MapV(out)), <<>>)

\* The format switch of Transform.Transform, and the return of
\* compileWithFilename
TransformReturn ==
  /\ pc = "transform"
  /\ idx > Len(program)
  /\ result' = CASE outputFormat = FormatJSON -> toJSON(output)
                 [] outputFormat = FormatYAML -> toYAML(output)
                 [] OTHER -> Return(NoOutput, <<"generation error: ",
                                                "unsupported output format: ", outputFormat>>)
  /\ pc' = "done"
  /\ UNCHANGED <<src, environ, outputFormat, p, program, idx, constants, aerrors,
                 output, stages>>
  /\ UNCHANGED <<calls, configured>>

Next ==
  \/ NewParserStep
  \/ ParseHead
  \/ ParseLoop
  \/ ParseEnd
  \/ CheckParse
  \/ DirectivePass
  \/ DirectivePassEnd
  \/ ResolvePass
  \/ AnalyzeReturn
  \/ TransformStep
  \/ TransformReturn

Spec == Init /\ [][Next]_vars

(***************************************************************************)
(* Compiler.CompileToFormat called twice on one Compiler.  A call reads    *)
(* and writes Compiler.outputFormat at three places: it saves the format,  *)
(* sets the one it was asked for, compiles, and writes the saved one back. *)
(* Of compileWithFilename only the read of c.outputFormat touches what the *)
(* calls share, so the compilation is one step here.                       *)
(***************************************************************************)
\* The goroutines that call CompileToFormat
Callers == {"first", "second"}

\* The mapping DocValid compiles to
ValidMapping == MapSet(EmptyMap, "name", StrV("test"))

\* A call of CompileToFormat(source, format) that has not begun
NewCall(format) == [pc |-> "call", format |-> format, oldFormat |-> "", result |-> NoResult]

FormatInit ==
  /\ src = DocValid
  /\ environ = EnvUnset
  /\ outputFormat \in Formats
  /\ pc = "start"
  /\ p = NoParser
  /\ program = <<>>
  /\ idx = 0
  /\ constants = EmptyMap
  /\ aerrors = <<>>
  /\ output = EmptyMap
  /\ result = NoResult
  /\ stages = <<>>
  /\ configured = outputFormat
  /\ calls \in [Callers -> {NewCall(f) : f \in {FormatJSON, FormatYAML}}]

compiling == <<src, environ, pc, p, program, idx, constants, aerrors, output, result,
               stages, configured>>

\* oldFormat := c.outputFormat
SaveFormat ==
  \E c \in Callers :
    /\ calls[c].pc = "call"
    /\ calls' = [calls EXCEPT ![c].oldFormat = outputFormat, ![c].pc = "saved"]
    /\ UNCHANGED <<outputFormat, compiling>>

\* c.outputFormat = format
SwitchFormat ==
  \E c \in Callers :
    /\ calls[c].pc = "saved"
    /\ outputFormat' = calls[c].format
    /\ calls' = [calls EXCEPT ![c].pc = "set"]
    /\ UNCHANGED compiling

\* result, err := c.compileWithFilename(source, "<stdin>"): the Transform is
\* made with the format c.outputFormat holds at that moment
CompileWithFormat ==
  \E c \in Callers :
    /\ calls[c].pc = "set"
    /\ calls' = [calls EXCEPT
         ![c].result = CASE outputFormat = FormatJSON -> toJSON(ValidMapping)
                         [] outputFormat = FormatYAML -> toYAML(ValidMapping)
                         [] OTHER -> Return(NoOutput, <<"generation error: ",
                                                        "unsupported output format: ",
                                                        outputFormat>>),
         ![c].pc = "compiled"]
    /\ UNCHANGED <<outputFormat, compiling>>

\* c.outputFormat = oldFormat; return result, err
RestoreFormat ==
  \E c \in Callers :
    /\ calls[c].pc = "compiled"
    /\ outputFormat' = calls[c].oldFormat
    /\ calls' = [calls EXCEPT ![c].pc = "returned"]
    /\ UNCHANGED compiling

FormatNext ==
  \/ SaveFormat
  \/ SwitchFormat
  \/ CompileWithFormat
  \/ RestoreFormat

FormatSpec == FormatInit /\ [][FormatNext]_vars

(***************************************************************************)
(* Properties.  Predicates over the state of one compileWithFilename call; *)
(* the syntactic notions they use are read off the parsed program.         *)
(***************************************************************************)
\* Whether the error text err holds the fragment f
HasFragment(err, f) == \E i \in 1..Len(err) : err[i] = f

\* Whether the error text err holds the fragments frags in a row
HasFragments(err, frags) ==
  \E i \in 0..(Len(err) - Len(frags)) : SubSeq(err, i + 1, i + Len(frags)) = frags

\* The formats Compile and CompileToFormat can emit
EmittingFormats == {FormatJSON, FormatYAML}

\* Statement i of the program is an @const directive
IsConst(i) == program[i].t = "DirectiveStatement" /\ program[i].Name = "const"

\* Some @const of the statements idxs declares name in namespace ns
DeclaredAmong(idxs, ns, name) ==
  \E i \in idxs :
    /\ IsConst(i)
    /\ constNamespace(program[i]) = ns
    /\ \E j \in 1..Len(program[i].Body.Pairs) :
         /\ program[i].Body.Pairs[j].Key.t = "Identifier"
         /\ program[i].Body.Pairs[j].Key.Value = name

\* The literal expressions, whose evaluation needs no constant and no
\* environment
LiteralTypes == {"StringLiteral", "NumberLiteral", "BooleanLiteral", "NullLiteral"}

\* Every Reference and EnvDirective node at or below a node, in every
\* position: assignment values, table bodies, array elements, object keys
\* and values, @env defaults, directive parameters and bodies, template parts
RECURSIVE SlotNodes(_)
SlotNodes(node) ==
  CASE node.t = "Reference" -> {node}
    [] node.t = "EnvDirective" -> {node} \cup SlotNodes(node.DefaultValue)
    [] node.t = "ArrayLiteral" ->
         UNION {SlotNodes(node.Elements[i]) : i \in 1..Len(node.Elements)}
    [] node.t = "ObjectLiteral" ->
         UNION {SlotNodes(node.Pairs[i].Key) \cup SlotNodes(node.Pairs[i].Val)
                : i \in 1..Len(node.Pairs)}
    [] node.t = "TemplateStringLiteral" ->
         UNION {SlotNodes(node.Parts[i].Expr) : i \in 1..Len(node.Parts)}
    [] node.t = "AssignmentStatement" -> SlotNodes(node.Value)
    [] node.t = "TableStatement" -> SlotNodes(node.Body)
    [] node.t = "DirectiveStatement" ->
         SlotNodes(node.Body)
           \cup UNION {SlotNodes(node.Parameters[i]) : i \in 1..Len(node.Parameters)}
    [] OTHER -> {}

\* The Reference and EnvDirective nodes in value position: the value of an
\* assignment, the body of a table, and from there array elements and
\* object values
RECURSIVE ValueNodes(_)
ValueNodes(node) ==
  CASE node.t \in {"Reference", "EnvDirective"} -> {node}
    [] node.t = "ArrayLiteral" ->
         UNION {ValueNodes(node.Elements[i]) : i \in 1..Len(node.Elements)}
    [] node.t = "ObjectLiteral" ->
         UNION {ValueNodes(node.Pairs[i].Val) : i \in 1..Len(node.Pairs)}
    [] node.t = "AssignmentStatement" -> ValueNodes(node.Value)
    [] node.t = "TableStatement" -> ValueNodes(node.Body)
    [] OTHER -> {}

\* The Reference and EnvDirective nodes whose value goes into the output:
\* those in value position, object keys and template parts
RECURSIVE EmittedNodes(_)
EmittedNodes(node) ==
  CASE node.t \in {"Reference", "EnvDirective"} -> {node}
    [] node.t = "ArrayLiteral" ->
         UNION {EmittedNodes(node.Elements[i]) : i \in 1..Len(node.Elements)}
    [] node.t = "ObjectLiteral" ->
         UNION {EmittedNodes(node.Pairs[i].Key) \cup EmittedNodes(node.Pairs[i].Val)
                : i \in 1..Len(node.Pairs)}
    [] node.t = "TemplateStringLiteral" ->
         UNION {EmittedNodes(node.Parts[i].Expr) : i \in 1..Len(node.Parts)}
    [] node.t = "AssignmentStatement" -> EmittedNodes(node.Value)
    [] node.t = "TableStatement" -> EmittedNodes(node.Body)
    [] OTHER -> {}

\* The mapping of the RFC example
ExampleDatabase == MapSet(MapSet(EmptyMap, "host", StrV("localhost")), "port", IntV(5432))
ExampleMapping ==
  MapSet(MapSet(EmptyMap, "app_version", StrV("1.0.0")), "database", MapV(ExampleDatabase))

\* C1: compiling the RFC example document returns no error and emits exactly
\* { app_version: "1.0.0", database: { host: "localhost", port: 5432 } },
\* port being an integer and the two directives contributing no key; the
\* source of TestBasicCompilation, which holds three more assignments,
\* emits the same two entries.
C1_ExampleCompiles ==
  /\ src \in {DocExample, DocBasicCompilation} => pc # "panic"
  /\ (src = DocExample /\ pc = "done" /\ outputFormat \in EmittingFormats) =>
       result = Return(Emitted(outputFormat, MapV(ExampleMapping)), <<>>)
  /\ (src = DocBasicCompilation /\ pc = "done" /\ outputFormat \in EmittingFormats) =>
       /\ result.err = <<>>
       /\ result.output.tree.v["app_version"] = StrV("1.0.0")
       /\ result.output.tree.v["database"] = MapV(ExampleDatabase)

C1_ExampleCompiled ==
  /\ src = DocExample
  /\ pc = "done"
  /\ outputFormat = FormatJSON
  /\ result.err = <<>>
  /\ DOMAIN result.output.tree.v = {"app_version", "database"}
  /\ result.output.tree.v["database"].v["port"] = IntV(5432)

\* The order of the stages
StageOrder == <<"ParseProgram", "Analyze", "Transform">>

\* C2: the stages run in the order parse, analyze, emit; Analyze is called
\* only if the parser recorded no error and Transform only if Analyze
\* recorded none; a call that returns an error returns the empty output,
\* and a call returns an error whenever a stage has recorded one.
C2_StagesInOrder ==
  /\ Len(stages) <= 3
  /\ stages = SubSeq(StageOrder, 1, Len(stages))
  /\ Len(stages) >= 2 => Len(p.errors) = 0
  /\ Len(stages) >= 3 => Len(aerrors) = 0
  /\ (result.returned /\ result.err # <<>>) => result.output = NoOutput
  /\ (result.returned /\ result.err = <<>>) => stages = StageOrder
  /\ (pc = "done" /\ (Len(p.errors) > 0 \/ Len(aerrors) > 0)) => result.err # <<>>

C2_AnalysisErrorStopsEmission ==
  /\ pc = "done"
  /\ stages = <<"ParseProgram", "Analyze">>
  /\ Len(aerrors) > 0
  /\ result.err # <<>>
  /\ result.output = NoOutput

\* The documents whose first non-comment statement is not an @brace
\* directive with exactly one string-literal parameter
HeadlessDocs ==
  {DocEmpty, DocOnlyComment, DocNoBrace, DocTableFirst, DocConstFirst, DocEnvFirst,
   DocBraceNoVersion, DocBraceNumberVersion}

\* C3: on a document without a well-formed leading @brace directive the
\* compilation returns an error that the parser recorded, the Program holds
\* no statement and the analyzer is never run.
C3_VersionDirectiveRequired ==
  src \in HeadlessDocs =>
    /\ pc # "panic"
    /\ Len(stages) <= 1
    /\ pc = "done" => /\ Len(p.errors) > 0
                      /\ result.err # <<>>
                      /\ program = <<>>

\* The undefined-reference error that names ns.name
UndefinedReference(ns, name) == <<"undefined reference: ", ns, ".", name>>

C5_TableCompleteBeforeResolution ==
  pc = "pass2" =>
    \A i \in 1..Len(program) :
      IsConst(i) =>
        \A j \in 1..Len(program[i].Body.Pairs) :
          (/\ program[i].Body.Pairs[j].Key.t = "Identifier"
           /\ program[i].Body.Pairs[j].Val.t \in LiteralTypes) =>
            constDefined(constants, constNamespace(program[i]),
                         program[i].Body.Pairs[j].Key.Value)

\* Pair k of @const i is `NAME = :ns.OTHER` where OTHER is the name pair j
\* of the same body declares (ns being the namespace of the directive)
RefersToPair(i, k, j) ==
  /\ program[i].Body.Pairs[k].Key.t = "Identifier"
  /\ program[i].Body.Pairs[j].Key.t = "Identifier"
  /\ program[i].Body.Pairs[k].Val.t = "Reference"
  /\ refNamespace(program[i].Body.Pairs[k].Val) = constNamespace(program[i])
  /\ program[i].Body.Pairs[k].Val.Name = program[i].Body.Pairs[j].Key.Value

\* C6: @const pairs are evaluated in file order.  Within one body, a
\* constant that references a literal constant declared before it receives
\* that constant's value, and a constant that references one declared only
\* after it makes the directive pass record an error.
C6_ConstFileOrder ==
  pc = "pass2" =>
    \A i \in 1..Len(program) :
      IsConst(i) =>
        \A j, k \in 1..Len(program[i].Body.Pairs) :
          j < k =>
            /\ (RefersToPair(i, k, j) /\ program[i].Body.Pairs[j].Val.t \in LiteralTypes) =>
                 /\ constDefined(constants, constNamespace(program[i]),
                                 program[i].Body.Pairs[k].Key.Value)
                 /\ constants[constNamespace(program[i])][program[i].Body.Pairs[k].Key.Value]
                      = analyzerEvaluateExpression(EmptyMap, environ,
                                                   program[i].Body.Pairs[j].Val).v
            /\ (/\ RefersToPair(i, j, k)
                /\ ~DeclaredAmong(1..(i - 1), constNamespace(program[i]),
                                  program[i].Body.Pairs[k].Key.Value)
                /\ \A h \in 1..(j - 1) : ~RefersToPair(i, j, h)) =>
                 Len(aerrors) > 0

\* The value the analyzer gives a Reference or EnvDirective node is null
ResolvesToNull(node) ==
  IF node.t = "Reference"
    THEN resolveReferenceValue(constants, node) = Ok(Nil)
    ELSE evaluateEnvDirectiveExpression(constants, environ, node) = Ok(Nil)

\* The slot of a node holds a value, or null is the value it was to hold
Populated(node) == slotResolved(node.ResolvedValue) \/ ResolvesToNull(node)

\* C7: once Analyze has returned without error, every Reference and every
\* EnvDirective node of the program, in whatever position, has a populated
\* resolved-value slot.
C7_EverySlotPopulated ==
  pc = "transform" =>
    \A i \in 1..Len(program) : \A node \in SlotNodes(program[i]) : Populated(node)

\* C8: after a successful Analyze, Transform never returns an "unresolved
\* reference" or "unresolved environment directive" error, whatever the
\* resolved values are.  Stated for the programs in which the analyzer
\* reached every slot.
C8_NoUnresolvedAfterAnalyze ==
  (/\ pc = "done"
   /\ stages = StageOrder
   /\ \A i \in 1..Len(program) : \A node \in SlotNodes(program[i]) : Populated(node)) =>
    /\ ~HasFragment(result.err, "unresolved reference: ")
    /\ ~HasFragment(result.err, "unresolved environment directive: ")

\* C9: a reference inside a template string is resolved against the constant
\* table and its text is put between the literal parts: with
\* @const "rbac" { Namespace = "r" }, apiVersion = `${:rbac.Namespace}/v1`
\* emits "r/v1"; an undefined reference inside a template is an analysis
\* error.
C9_TemplateReferenceResolved ==
  /\ (src = DocTemplate /\ pc = "done" /\ outputFormat \in EmittingFormats) =>
       /\ result.err = <<>>
       /\ result.output.tree.v["apiVersion"] = StrV("r/v1")
  /\ (src = Document(<<8>>) /\ pc = "done") => HasFragment(result.err, "analysis error: ")

\* C10: for every @env("X"): with X unset or empty and no default the
\* compilation fails; with X unset or empty and a default the node's value
\* is the default's evaluated value; with X set to a non-empty text the
\* node's value is the one derived from that text.
C10_EnvDirectiveCases ==
  /\ pc = "done" =>
       \A i \in 1..Len(program) : \A e \in SlotNodes(program[i]) :
         (/\ e.t = "EnvDirective"
          /\ ~envValueUsed(Getenv(environ, e.VarName))
          /\ IsNil(e.DefaultValue)) => result.err # <<>>
  /\ pc = "transform" =>
       \A i \in 1..Len(program) : \A e \in EmittedNodes(program[i]) :
         e.t = "EnvDirective" =>
           IF envValueUsed(Getenv(environ, e.VarName))
             THEN transformEvaluateExpression(e)
                    = {Ok(coerceEnvValue(Getenv(environ, e.VarName)))}
             ELSE ~IsNil(e.DefaultValue) =>
                    transformEvaluateExpression(e)
                      = {Ok(analyzerEvaluateExpression(constants, environ, e.DefaultValue).v)}

\* C11: a non-empty environment text is coerced by the first rule that
\* applies: "true" or "false" gives a boolean, else a base-10 integer text
\* gives an integer, else a float text gives a float, else the text itself.
\* X=42 gives the integer 42, B=true the boolean, F=3.14 a float.
C11_EnvCoercionOrder ==
  /\ (src = DocEnvTyped /\ environ = EnvTyped /\ pc = "done"
        /\ outputFormat \in EmittingFormats) =>
       /\ result.err = <<>>
       /\ result.output.tree.v["b"] = BoolV(TRUE)
       /\ result.output.tree.v["n"] = BoolV(FALSE)
       /\ result.output.tree.v["f"] = FloatV(314, -2)
       /\ result.output.tree.v["s"] = StrV("abc")
       /\ result.output.tree.v["i"] = IntV(-7)
       /\ result.output.tree.v["t"] = StrV("True")
       /\ result.output.tree.v["e"] = FloatV(1, 3)
       /\ result.output.tree.v["z"] = IntV(42)
  /\ (environ = EnvX42 /\ pc = "transform") =>
       \A i \in 1..Len(program) : \A e \in ValueNodes(program[i]) :
         (e.t = "EnvDirective" /\ e.VarName = "X") => e.ResolvedValue = IntV(42)

C11_EnvTextsCoerced ==
  /\ src = DocEnvTyped
  /\ environ = EnvTyped
  /\ pc = "done"
  /\ result.err = <<>>
  /\ result.output.tree.v["f"].k = "float"
  /\ result.output.tree.v["i"].k = "int"

\* The mapping with the one entry key -> value
OneEntry(key, value) == MapSet(EmptyMap, key, value)

\* C12: table statements that share intermediate path segments merge under
\* the same mapping, in either order: `#a.b { x = 1 }` and `#a.c { y = 2 }`
\* give a root where `a` holds both `b` and `c`; a mapping already present at
\* an intermediate segment, made by an earlier table statement or by an
\* object-valued assignment, is not replaced and keeps its earlier entries.
C12_TablesMerge ==
  (pc = "done" /\ outputFormat \in EmittingFormats) =>
    /\ src \in {DocTablesMerge, DocTablesMergeRev} =>
         /\ result.err = <<>>
         /\ result.output.tree =
              MapV(OneEntry("a", MapV(MapSet(OneEntry("b", MapV(OneEntry("x", IntV(1)))),
                                             "c", MapV(OneEntry("y", IntV(2)))))))
    /\ src = DocObjectThenTable =>
         /\ result.err = <<>>
         /\ result.output.tree =
              MapV(OneEntry("a", MapV(MapSet(OneEntry("z", IntV(1)),
                                             "b", MapV(OneEntry("x", IntV(1)))))))
    /\ src = DocTableDeep =>
         /\ result.err = <<>>
         /\ result.output.tree =
              MapV(OneEntry("a", MapV(MapSet(
                OneEntry("b", MapV(MapSet(OneEntry("c", MapV(OneEntry("x", IntV(1)))),
                                          "d", MapV(OneEntry("y", IntV(2)))))),
                "e", MapV(OneEntry("w", IntV(3)))))))

\* The second table statement of the merging rule has been processed and the
\* mapping of the first is still there
C12_SecondTableMerged ==
  /\ src = DocTablesMerge
  /\ pc = "transform"
  /\ idx = 4
  /\ DOMAIN MapGet(output, "a").v = {"b", "c"}

\* Whether the evaluation of a pair value of an @const body fails whatever
\* the order of evaluation: a Reference to a name no @const of the program
\* declares, or an @env of an unset variable without default
AlwaysFails(value) ==
  \/ /\ value.t = "Reference"
     /\ ~DeclaredAmong(1..Len(program), refNamespace(value), value.Name)
  \/ /\ value.t = "EnvDirective"
     /\ value.VarName \notin DOMAIN environ
     /\ IsNil(value.DefaultValue)

\* C13: Analyze does not stop at the first error: once the directive pass is
\* over, the error list holds an entry for every failing pair of every @const
\* body.
C13_EveryFailingPairListed ==
  pc = "pass2" =>
    \A i \in 1..Len(program) :
      IsConst(i) =>
        \A j \in 1..Len(program[i].Body.Pairs) :
          LET pair == program[i].Body.Pairs[j]
          IN (pair.Key.t = "Identifier" /\ AlwaysFails(pair.Val)) =>
               \E k \in 1..Len(aerrors) :
                 SubSeq(aerrors[k], 1, 2) = <<"error evaluating constant ", pair.Key.Value>>

\* Pair j of statement i declares the constant name of namespace ns
Declares(i, j, ns, name) ==
  /\ IsConst(i)
  /\ constNamespace(program[i]) = ns
  /\ program[i].Body.Pairs[j].Key.t = "Identifier"
  /\ program[i].Body.Pairs[j].Key.Value = name

\* Pair j of statement i is the last declaration of its constant in the file
IsLastDeclaration(i, j, ns, name) ==
  /\ Declares(i, j, ns, name)
  /\ \A i2 \in i..Len(program) :
       IsConst(i2) =>
         \A j2 \in 1..Len(program[i2].Body.Pairs) :
           (i2 > i \/ j2 > j) => ~Declares(i2, j2, ns, name)

\* C14: a constant declared more than once in a namespace gives no error,
\* and the declaration that comes last in the file is the one in the constant
\* table when the references are resolved (here for literal values).
C14_LastDeclarationWins ==
  /\ src \in {DocConstTwice, DocConstTwiceInBody} => aerrors = <<>>
  /\ (pc = "pass2" /\ aerrors = <<>>) =>
       \A i \in 1..Len(program) :
         IsConst(i) =>
           \A j \in 1..Len(program[i].Body.Pairs) :
             LET pair == program[i].Body.Pairs[j]
                 ns == constNamespace(program[i])
             IN (pair.Val.t \in LiteralTypes /\ pair.Key.t = "Identifier"
                   /\ IsLastDeclaration(i, j, ns, pair.Key.Value)) =>
                  /\ ns \in DOMAIN constants
                  /\ MapGet(constants[ns], pair.Key.Value)
                       = analyzerEvaluateExpression(constants, environ, pair.Val).v

\* The statements the resolution pass has gone through
Resolved ==
  CASE pc = "pass2" -> 1..(idx - 1)
    [] pc = "transform" -> 1..Len(program)
    [] OTHER -> {}

\* Every Reference in value position of a statement the resolution pass has
\* gone through holds the value the constant table has for its name
ReferencesHoldTableValue ==
  \A i \in Resolved :
    \A e \in ValueNodes(program[i]) :
      (e.t = "Reference" /\ constDefined(constants, refNamespace(e), e.Name)) =>
        e.ResolvedValue = constants[refNamespace(e)][e.Name]

\* C15: the resolution pass does not change the constant table, and every
\* resolved Reference holds the value the table has for its name, so that two
\* references to one constant hold the identical value.
C15_ResolutionKeepsTable ==
  /\ []ReferencesHoldTableValue
  /\ [][pc = "pass2" => constants' = constants]_vars

\* Three references to one constant have been resolved
C15_SameReferenceResolvedTwice ==
  /\ src = DocRefTwice
  /\ pc = "transform"
  /\ program[3].Value.ResolvedValue = StrV("x")
  /\ program[4].Value.Elements[1].ResolvedValue = StrV("x")
  /\ program[4].Value.Elements[2].ResolvedValue = program[3].Value.ResolvedValue

\* C16: a constant may hold an array or an object literal: the two @const
\* pairs are stored in the constant table, and the references to them emit
\* the array [1, 2] and the mapping { k: 1 }.
C16_StructuredConstant ==
  /\ (src = DocConstStructured /\ pc = "pass2") =>
       /\ aerrors = <<>>
       /\ DOMAIN constants["global"] = {"L", "O"}
  /\ (src = DocConstStructured /\ pc = "done" /\ outputFormat \in EmittingFormats) =>
       /\ result.err = <<>>
       /\ result.output.tree.v["l"] = ArrV(<<IntV(1), IntV(2)>>)
       /\ result.output.tree.v["o"] = MapV(OneEntry("k", IntV(1)))

\* The key nodes of every object literal at or below a node: assignment
\* values, table bodies, @const bodies, and the arrays and objects in them
RECURSIVE KeyNodes(_)
KeyNodes(node) ==
  CASE node.t = "ArrayLiteral" ->
         UNION {KeyNodes(node.Elements[i]) : i \in 1..Len(node.Elements)}
    [] node.t = "ObjectLiteral" ->
         UNION {{node.Pairs[i].Key} \cup KeyNodes(node.Pairs[i].Key)
                  \cup KeyNodes(node.Pairs[i].Val)
                : i \in 1..Len(node.Pairs)}
    [] node.t = "AssignmentStatement" -> KeyNodes(node.Value)
    [] node.t = "TableStatement" -> KeyNodes(node.Body)
    [] node.t = "DirectiveStatement" -> KeyNodes(node.Body)
    [] OTHER -> {}

\* The literals that do not evaluate to a string
NonStringLiterals == {"NumberLiteral", "BooleanLiteral", "NullLiteral"}

\* C17: a document with an object literal, a table body or an @const body
\* that has a number, boolean or null key never compiles successfully: the
\* call ends with an error and no output.
C17_NonStringKeyFails ==
  (/\ pc = "done"
   /\ \E i \in 1..Len(program) : \E key \in KeyNodes(program[i]) : key.t \in NonStringLiterals)
  => /\ result.err # <<>>
     /\ result.output = NoOutput

\* C18: every mapping of the emitted tree keeps insertion order: read back,
\* the keys of the root come in the order of the statements (b, then a) and
\* the keys of the object in the order of its pairs (d, then c).
C18_InsertionOrderKept ==
  (src = DocKeysBA /\ pc = "done" /\ outputFormat \in EmittingFormats) =>
    /\ result.err = <<>>
    /\ \A order \in RangeOrders(result.output.tree.v) : order = <<"b", "a">>
    /\ \A order \in RangeOrders(result.output.tree.v["a"].v) : order = <<"d", "c">>

\* The number of pairs of the object literal of each layout document
LayoutPairs ==
  [d \in {DocObjEmpty, DocObjLayouts, DocObjOnlyComment, DocObjCommentAfterComma} |->
     CASE d = DocObjEmpty -> 0
       [] d = DocObjLayouts -> 4
       [] d = DocObjOnlyComment -> 0
       [] d = DocObjCommentAfterComma -> 1]

\* C19: an object literal with n pairs parses without error into exactly n
\* pairs in every legal layout: empty, commas, no separator before an
\* identifier key, comments before and after a pair, a trailing comma, a
\* comment after the trailing comma, and an object that holds only comments.
C19_ObjectLayoutsParse ==
  (src \in DOMAIN LayoutPairs /\ pc = "parsed") =>
    /\ p.errors = <<>>
    /\ Len(program) = 2
    /\ program[2].Value.t = "ObjectLiteral"
    /\ Len(program[2].Value.Pairs) = LayoutPairs[src]

\* The statement a well-formed chunk parses to, when it stands alone after
\* the version directive
StatementOf(k) == ParseProgram(NewParser(NewLexer(Document(<<k>>)))).Statements[2]

\* Assignment of an integer to a name
AssignInt(name, n) == AssignmentStatement(Identifier(name), NumberLiteral(IntV(n)))

\* What ParseProgram returns for the documents with a failed statement: the
\* statements that follow it are parsed and appended
FailedStatementSkipped ==
  /\ src = DocBadPeek =>
       /\ Len(p.errors) = 1
       /\ SubSeq(program, 3, 4) = <<AssignInt("z", 1), AssignInt("w", 2)>>
  /\ src = DocBadInTable =>
       /\ Len(p.errors) > 0
       /\ program[Len(program)] = AssignInt("a", 1)
  /\ src = DocBadToken =>
       /\ Len(p.errors) = 1
       /\ SubSeq(program, 2, 3)
            = <<AssignInt("a", 1),
                TableStatement(<<"t">>, ObjectLiteral(<<Pair(Identifier("k"),
                                                            NumberLiteral(IntV(2)))>>))>>
  /\ \A b, k \in 1..Len(Stmts) :
       (Stmts[b] = StmtBad /\ Stmts[k] # StmtBad) =>
         /\ src = Document(<<b, k>>) =>
              Len(p.errors) > 0 /\ program[Len(program)] = StatementOf(k)
         /\ src = Document(<<k, b>>) =>
              Len(p.errors) > 0 /\ program[2] = StatementOf(k)

Recorded(msg) == \E i \in 1..Len(p.errors) : p.errors[i].Message = msg

\* C21: ParseProgram returns normally on a malformed version directive and
\* reports its message: "@brace directive requires exactly one version
\* parameter" for `@brace` without a parameter, "@brace version must be a
\* string literal" for `@brace 1.0`.
C21_MalformedVersionReported ==
  /\ src \in {DocBraceNoVersion, DocBraceNumberVersion} => pc # "panic"
  /\ (src = DocBraceNoVersion /\ pc = "parsed") =>
       Recorded("@brace directive requires exactly one version parameter")
  /\ (src = DocBraceNumberVersion /\ pc = "parsed") =>
       Recorded("@brace version must be a string literal")

\* C22: once NextToken has returned an end-of-input token, every later call
\* on the same lexer returns an end-of-input token: among the tokens the
\* parser's lexer returns, none of another kind follows an EOF token.
C22_EndOfInputForGood ==
  \A i, j \in 1..Len(p.l.toks) :
    (i < j /\ p.l.toks[i].Type = "EOF") => p.l.toks[j].Type = "EOF"

\* The kinds of the tokens the parser's lexer returns, in order
TokenTypes == [i \in 1..Len(p.l.toks) |-> p.l.toks[i].Type]

\* C23: a block comment ends at the first `*/`, gives exactly one comment
\* token and drops no input: after `/* c */` the next tokens are the
\* identifier x, `=` and the number 1, with or without a space in between.
C23_BlockCommentDropsNothing ==
  (src \in {DocCommentTight, DocCommentSpaced} /\ pc # "start") =>
    /\ TokenTypes = <<"AT", "IDENT", "STRING", "COMMENT", "IDENT", "ASSIGN", "NUMBER">>
    /\ p.l.toks[5].Literal = <<"x">>

\* The text the parts of a template stand for: the content of a literal
\* part, and `${` content `}` for an expression part
RECURSIVE Rebuilt(_, _)
Rebuilt(parts, i) ==
  IF i > Len(parts) THEN ""
  ELSE (IF parts[i].IsLiteral THEN parts[i].Content ELSE "${" \o parts[i].Content \o "}")
         \o Rebuilt(parts, i + 1)

\* Whether part i of the parts is a literal part
PartKinds(parts) == [i \in 1..Len(parts) |-> parts[i].IsLiteral]

Unclosed == "unclosed interpolation in template string"

\* The templates that are the value of an assignment
TemplatesParsed ==
  { program[i].Value : i \in { j \in 1..Len(program) :
      /\ program[j].t = "AssignmentStatement"
      /\ program[j].Value.t = "TemplateStringLiteral" } }

\* C24: parseTemplateStringParts splits every template from left to right
\* into parts that rebuild the literal when every `${` has a later `}`; no
\* literal part is empty; a `${` without a later `}` adds a parse error and
\* keeps the parts found before it.
C24_PartsRebuildTemplate ==
  /\ src \in {DocTemplateMany, DocTemplateUnclosed, DocTemplateQuote} => pc # "panic"
  /\ pc = "parsed" =>
       /\ \A t \in TemplatesParsed :
            /\ \A i \in 1..Len(t.Parts) : t.Parts[i].IsLiteral => t.Parts[i].Content # ""
            /\ ~Recorded(Unclosed) => Rebuilt(t.Parts, 1) = t.Value
       /\ src = DocTemplateMany =>
            /\ p.errors = <<>>
            /\ PartKinds(program[2].Value.Parts) = <<TRUE, FALSE, TRUE, FALSE, FALSE, TRUE>>
            /\ program[2].Value.Parts[5].Content = " 1 "
            /\ PartKinds(program[3].Value.Parts) = <<FALSE>>
            /\ PartKinds(program[4].Value.Parts) = <<TRUE>>
       /\ src = DocTemplateUnclosed =>
            /\ Recorded(Unclosed)
            /\ PartKinds(program[2].Value.Parts) = <<TRUE, FALSE, TRUE>>
            /\ Rebuilt(program[2].Value.Parts, 1) = "a${:A}b"
       /\ src = DocTemplateQuote =>
            /\ PartKinds(program[2].Value.Parts) = <<FALSE>>
            /\ program[2].Value.Parts[1].Content = "\""

\* C25: Transform never crashes: once it has been called on a program that
\* passed parsing and analysis, the call goes on to return an output or an
\* error, also when a table path goes through a key that holds a scalar or
\* an array.
C25_TransformNeverCrashes ==
  Len(stages) = 3 => pc # "panic"

\* The outcomes the step the call is about to take can have: those of
\* processDirective in the directive pass, of resolveReferences in the
\* resolution pass and of processStatement in Transform
StepOutcomes ==
  CASE pc = "pass1" /\ idx <= Len(program) /\ program[idx].t = "DirectiveStatement" ->
         processDirective(constants, environ, program[idx])
    [] pc = "pass2" /\ idx <= Len(program) ->
         resolveReferences(constants, environ, program[idx])
    [] pc = "transform" /\ idx <= Len(program) ->
         processStatement(output, program[idx])
    [] OTHER -> {pc}

\* C26: compilation is deterministic: on one source and one environment two
\* runs give the same result, i.e. no step of a run has more than one
\* outcome, also for an object with a repeated key and an @const body with
\* several pairs.
C26_OneOutcomePerStep ==
  Cardinality(StepOutcomes) = 1

\* C27: every element of Program.Statements is a fully built directive,
\* table or assignment statement: a statement whose parse function returned
\* nil is never appended.
C27_NoNilStatement ==
  \A i \in 1..Len(program) :
    /\ ~IsNilPtr(program[i])
    /\ program[i].t \in {"DirectiveStatement", "TableStatement", "AssignmentStatement"}

\* C28: for every interleaving of two CompileToFormat calls on one Compiler,
\* one for JSON and one for YAML, each call returns its output in the format
\* it asked for, and when both have returned the Compiler's format is the one
\* it was constructed with.
C28_FormatPerCall ==
  (DOMAIN calls = Callers /\ calls["first"].format # calls["second"].format) =>
    /\ \A c \in Callers :
         calls[c].pc = "returned" => calls[c].result.output.format = calls[c].format
    /\ (\A c \in Callers : calls[c].pc = "returned") => outputFormat = configured

\* Whether the NextToken call with result r, made on lexer l, has moved the
\* lexer's position forward when the token it returned is not EOF
movedOn(l, r) == r.tok.Type # "EOF" => r.l.position > l.position

RECURSIVE EveryTokenConsumes(_)
consumesFrom(l, r) == movedOn(l, r) /\ EveryTokenConsumes(r.l)

\* Whether every NextToken call made on l, and on the lexers that follow it,
\* while input is left, consumes at least one byte for a token that is not EOF
EveryTokenConsumes(l) ==
  l.position >= Len(l.input) \/ consumesFrom(l, NextToken(l))

\* C29: lexing and parsing always terminate: every token that is not EOF
\* consumes at least one byte, every iteration of the statement loop consumes
\* at least one token, and ParseProgram returns after a number of NextToken
\* calls bounded by the length of the input.
C29_ParsingTerminates ==
  /\ pc = "parseHead" => EveryTokenConsumes(NewLexer(src))
  /\ p # NoParser =>
       /\ Len(p.l.toks) <= Len(src)
       /\ p.l.n <= Len(src) + 2
  /\ (pc = "parseLoop" /\ p.curToken.Type # "EOF") =>
       parseProgramStep(p, program).p.l.n > p.l.n
  /\ (pc = "panic" => Len(stages) # 1)

\* C30: a number literal without a decimal point is parsed as the base-10
\* integer its digits spell, leading zeros included: `010` is the integer 10
\* and `08` the integer 8, and neither adds a parse error.
C30_IntegersAreDecimal ==
  pc = "parsed" =>
    /\ src = DocLeadingZero =>
         /\ p.errors = <<>>
         /\ program[2].Value = NumberLiteral(IntV(10))
         /\ program[3].Value = NumberLiteral(IntV(10))
         /\ program[4].Value = NumberLiteral(IntV(0))
         /\ program[5].Value = NumberLiteral(IntV(0 - 7))
    /\ src = DocZeroEight =>
         /\ p.errors = <<>>
         /\ program[2].Value = NumberLiteral(IntV(8))

====
